---- MODULE Spec2Model ----
(***************************************************************************)
(* Model of the Connect quota monitor (src/lambda_function.py).            *)
(*                                                                         *)
(* The model follows the configuration in which the optional modules      *)
(* enhanced_error_handling and performance_optimizer are not importable:   *)
(* error_handler is None and performance_optimizer is None, so every       *)
(* remote call goes through _call_service_api_basic and every pagination   *)
(* through the "original implementation" loops.                            *)
(*                                                                         *)
(* Handlers are operators over a "world" record w holding the client       *)
(* registry (clients, client_health) and the log of remote invocations     *)
(* (calls); each returns its value together with the world it leaves.      *)
(* What a remote service answers is an input (an "env" record) drawn from  *)
(* small sets by the actions.                                              *)
(*                                                                         *)
(* utilization_percentage is kept in hundredths of a percent (an integer): *)
(* the code rounds it to two decimals.                                     *)
(***************************************************************************)
EXTENDS Integers, Sequences, FiniteSets, TLC

VARIABLES
    clients,             \* MultiServiceClientManager.clients (services with a handle)
    client_health,       \* MultiServiceClientManager.client_health
    calls,               \* log of remote invocations made so far (ghost)
    pc,                  \* position of the running operation
    threshold_percentage,\* threshold handed to the cycle / held by the alert engine
    instances,           \* active instances of the cycle, in discovery order
    quota_idx,           \* index of the next quota of the running loop
    instance_idx,        \* index of the instance being monitored
    monitoring_results,  \* the cycle summary being built
    history,             \* one entry per get_quota_utilization call (ghost)
    alert_results,       \* what process_monitoring_results returned
    published,           \* publish calls made on the notification sink, in order
    topic_arn,           \* topic handed to monitor_and_alert
    locals,              \* instance_results / instance_violations of the instance loop
    page_in,             \* input of a pagination run: the listing env
    page_out,            \* outcome of a pagination run
    storage_engine,      \* FlexibleStorageEngine.use_s3 / use_dynamodb
    s3_objects,          \* the bucket: key -> body
    dynamodb_items,      \* the table: id -> item
    stores,              \* one entry per store_* call (ghost)
    now,                 \* the clock read by datetime.utcnow(), in ticks
    initialization_errors, \* MultiServiceClientManager.initialization_errors
    connectivity,        \* what the services did in the last construction or
                         \* health check (ghost)
    cached_instances,    \* ConnectQuotaMonitor._cached_instances
    cache_timestamp,     \* ConnectQuotaMonitor._cache_timestamp, in ticks
    dataset,             \* what the remote side answers to each task of a parallel run
    task_results,        \* per task of a parallel run: None while pending, else its outcome
    account_id           \* ConnectQuotaMonitor._account_id

vars == <<clients, client_health, calls, pc, threshold_percentage, instances,
          quota_idx, instance_idx, monitoring_results, history, alert_results,
          published, topic_arn, locals, page_in, page_out, storage_engine,
          s3_objects, dynamodb_items, stores, now, initialization_errors,
          connectivity, cached_instances, cache_timestamp, dataset, task_results, account_id>>

\* the state of the storage engine, of its backends and of the registry's
\* construction, which the monitoring operations leave alone
storageVars == <<storage_engine, s3_objects, dynamodb_items, stores, now,
                 initialization_errors, connectivity, cached_instances,
                 cache_timestamp, dataset, task_results, account_id>>

\* the state of the monitoring operations, which the stores leave alone
monitorVars == <<clients, client_health, calls, pc, threshold_percentage, instances,
                 quota_idx, instance_idx, monitoring_results, history, alert_results,
                 published, topic_arn, locals, page_in, page_out>>

\* Python's None and a present value: a sequence of length 0 or 1
None == <<>>
Some(x) == <<x>>
Val(o) == o[1]

\* ------------------------------------------------------------------ bounds

MaxInstances == 1        \* instances discovered in a cycle
MaxListPages == 2        \* pages a listing serves to one quota resolution
MaxPageSize == 2         \* items per page in a pagination run
MaxExtraPages == 2       \* pages a listing may serve beyond the ceiling
MaxStores == 2           \* store_* calls made on one storage engine
MaxClock == 3            \* ticks the clock advances
TicksPerSecond == 2      \* clock readings that fall into one second
MaxDiscoveries == 2      \* get_connect_instances calls made on one monitor
MaxNesting == 3          \* nested get_connect_instances calls before RecursionError

\* ------------------------------------------------------- program constants

max_retries == 3         \* _call_service_api_basic
max_pages == 100         \* _count_via_pagination_enhanced, _get_all_resources
DEFAULT_THRESHOLD == 80  \* THRESHOLD_PERCENTAGE default
SecondsPerDay == 86400   \* the date partition and the %H%M%S name of a key
CACHE_TTL_SECONDS == 300 \* get_connect_instances: "5 minute cache"
basic_max_pages == 10    \* _discover_instances_basic: max_pages

\* ---------------------------------------------------------------- registry

RequiredServices == {"connect", "service-quotas", "cloudwatch", "sns"}
OptionalServices == {"wisdom", "customer-profiles"}
\* SUPPORTED_SERVICES, restricted to the services the modelled quotas use
SUPPORTED_SERVICES == RequiredServices \cup OptionalServices

\* MultiServiceClientManager.get_client: TRUE iff a handle is returned
GetClient(w, service_name) ==
    IF service_name \notin w.clients THEN FALSE
    ELSE IF ~ w.client_health[service_name] THEN FALSE
    ELSE TRUE

\* MultiServiceClientManager._initialize_client, the outcome of client creation
\* and connectivity test given as succeeds
InitializeClient(w, service_name, succeeds) ==
    IF succeeds
    THEN [w EXCEPT !.clients = @ \cup {service_name},
                   !.client_health = [@ EXCEPT ![service_name] = TRUE]]
    ELSE [w EXCEPT !.client_health = [@ EXCEPT ![service_name] = FALSE]]

\* a reconnection whose failure leaves the health of the service as it was
ReconnectClientKeepingHealth(w, service_name, succeeds) ==
    IF service_name \notin SUPPORTED_SERVICES THEN w
    ELSE IF succeeds THEN InitializeClient(w, service_name, TRUE)
    ELSE w

\* MultiServiceClientManager.reconnect_client
ReconnectClient(w, service_name, succeeds) ==
    IF service_name \notin SUPPORTED_SERVICES THEN w
    ELSE InitializeClient(w, service_name, succeeds)

\* MultiServiceClientManager.is_service_available
IsServiceAvailable(w, service_name) ==
    service_name \in w.clients /\ w.client_health[service_name]

\* MultiServiceClientManager.reconnect_client with its return value: False for
\* a service that is not declared and for a failed _initialize_client
ReconnectClientResult(w, service_name, succeeds) ==
    [ok |-> service_name \in SUPPORTED_SERVICES /\ succeeds,
     w |-> ReconnectClient(w, service_name, succeeds)]

\* SUPPORTED_SERVICES in the order of declaration, which is the order of
\* construction
DeclaredServices ==
    <<"connect", "customer-profiles", "wisdom", "service-quotas", "cloudwatch", "sns">>

\* what the no-op call of _test_client_connectivity may do: answer, fail with
\* a ClientError of the given code, or fail with an error that is no ClientError
ConnectivityClientErrors == {"AccessDenied", "UnauthorizedOperation", "Forbidden"}
ConnectivityOutcomes ==
    {"ok", "EndpointConnectionError"} \cup ConnectivityClientErrors

\* a connectivity test that accepts every permission code
TestClientConnectivityLenient(service_name, outcome) ==
    IF service_name \notin {"connect", "service-quotas", "cloudwatch", "sns"} THEN FALSE
    ELSE IF outcome = "ok" THEN FALSE
    ELSE IF outcome \in ConnectivityClientErrors THEN FALSE
    ELSE TRUE

\* MultiServiceClientManager._test_client_connectivity: TRUE iff it raises.
\* Only the four required services have a no-op call.
TestClientConnectivity(service_name, outcome) ==
    IF service_name \notin {"connect", "service-quotas", "cloudwatch", "sns"} THEN FALSE
    ELSE IF outcome = "ok" THEN FALSE
    ELSE IF outcome \in ConnectivityClientErrors
    THEN outcome \notin {"AccessDenied", "UnauthorizedOperation"}
    ELSE TRUE

\* _initialize_client succeeds: session.client returned a handle and, for a
\* required service, the connectivity test did not raise
ClientInitialized(service_name, outcome) ==
    /\ outcome /= "no_client"
    /\ service_name \in RequiredServices => ~ TestClientConnectivity(service_name, outcome)

\* a construction that goes on after a required service failed
RECURSIVE InitializeAllClientsLenient(_, _, _, _)
InitializeAllClientsLenient(w, errors, i, outcomes) ==
    IF i > Len(DeclaredServices)
    THEN [w |-> w, initialization_errors |-> errors, raised |-> FALSE,
          attempted |-> Len(DeclaredServices)]
    ELSE InitializeAllClientsLenient(
             InitializeClient(w, DeclaredServices[i],
                              ClientInitialized(DeclaredServices[i],
                                                outcomes[DeclaredServices[i]])),
             IF ClientInitialized(DeclaredServices[i], outcomes[DeclaredServices[i]])
             THEN errors ELSE errors \cup {DeclaredServices[i]},
             i + 1, outcomes)

\* MultiServiceClientManager._initialize_all_clients from the i-th declared
\* service on; outcomes tells what each service does when its handle is
\* created and tested. attempted is the number of services tried (ghost).
RECURSIVE InitializeAllClients(_, _, _, _)
InitializeAllClients(w, errors, i, outcomes) ==
    IF i > Len(DeclaredServices)
    THEN [w |-> w, initialization_errors |-> errors, raised |-> FALSE,
          attempted |-> Len(DeclaredServices)]
    ELSE IF ClientInitialized(DeclaredServices[i], outcomes[DeclaredServices[i]])
    THEN InitializeAllClients(InitializeClient(w, DeclaredServices[i], TRUE),
                              errors, i + 1, outcomes)
    ELSE IF DeclaredServices[i] \in RequiredServices
    THEN [w |-> InitializeClient(w, DeclaredServices[i], FALSE),
          initialization_errors |-> errors \cup {DeclaredServices[i]},
          raised |-> TRUE, attempted |-> i]
    ELSE InitializeAllClients(InitializeClient(w, DeclaredServices[i], FALSE),
                              errors \cup {DeclaredServices[i]}, i + 1, outcomes)

\* MultiServiceClientManager.health_check: every service with a handle is
\* tested and its health set to the outcome of the test
HealthCheck(w, outcomes) ==
    [w EXCEPT !.client_health =
        [x \in DOMAIN @ |-> IF x \in w.clients
                            THEN ~ TestClientConnectivity(x, outcomes[x])
                            ELSE @[x]]]

\* -------------------------------------------------------------- remote call

\* Outcomes of one attempt of a remote call (error codes of the code's lists,
\* one or two of each class)
ThrottlingCodes == {"Throttling", "ThrottlingException", "RequestLimitExceeded"}
ServiceErrorCodes == {"ServiceUnavailable", "InternalError", "InternalFailure"}
PermissionCodes == {"AccessDenied", "UnauthorizedOperation", "Forbidden"}
ValidationCodes == {"InvalidParameterValue", "ValidationException"}
OtherCodes == {"ResourceNotFoundException"}
ConnectionErrors == {"BotoCoreError:reconnect_ok", "BotoCoreError:reconnect_fails"}
UnexpectedErrors == {"Exception"}

\* What the remote side does on each of the (at most max_retries) attempts of
\* one call_service_api invocation
OkScript == <<"ok", "ok", "ok">>
DeniedScript == <<"AccessDenied", "ok", "ok">>
ThrottledScript == <<"Throttling", "ThrottlingException", "RequestLimitExceeded">>
ThrottledOnceScript == <<"Throttling", "ok", "ok">>
DisconnectedScript == <<"BotoCoreError:reconnect_fails", "ok", "ok">>
FailScripts == {DeniedScript, ThrottledScript, DisconnectedScript}

\* time.sleep(wait_time) after a failed attempt, in tenths of a second:
\* (2 ** retry_count) + (retry_count * 0.1) after a throttling error,
\* 2 ** retry_count after a service error, no wait otherwise
BackoffWait(outcome, retry_count) ==
    IF outcome \in ThrottlingCodes THEN 10 * (2 ^ retry_count) + retry_count
    ELSE IF outcome \in ServiceErrorCodes THEN 10 * (2 ^ retry_count)
    ELSE 0

\* a call that gives up after its first attempt whatever the error
CallServiceApiBasicSingleAttempt(w, service_name, api_method, param, token, script, retry_count) ==
    IF ~ (retry_count < max_retries) THEN [ok |-> FALSE, w |-> w]
    ELSE IF ~ GetClient(w, service_name) THEN [ok |-> FALSE, w |-> w]
    ELSE [ok |-> script[retry_count + 1] = "ok",
          w |-> [w EXCEPT !.calls =
                    Append(@, [service |-> service_name, api |-> api_method,
                               param |-> param, token |-> token,
                               attempt |-> retry_count + 1,
                               outcome |-> script[retry_count + 1],
                               backoff |-> 0])]]

\* a call whose loop runs once more than max_retries (the remote side
\* repeating its answers)
RECURSIVE CallServiceApiBasicOneMore(_, _, _, _, _, _, _)
CallServiceApiBasicOneMore(w, service_name, api_method, param, token, script, retry_count) ==
    IF ~ (retry_count < max_retries + 1) THEN [ok |-> FALSE, w |-> w]
    ELSE IF ~ GetClient(w, service_name) THEN [ok |-> FALSE, w |-> w]
    ELSE
      LET outcome == script[(retry_count % Len(script)) + 1]
          w1 == [w EXCEPT !.calls = Append(@, [service |-> service_name,
                                               api |-> api_method,
                                               param |-> param,
                                               token |-> token,
                                               attempt |-> retry_count + 1,
                                               outcome |-> outcome,
                                               backoff |-> BackoffWait(outcome, retry_count)])]
      IN  IF outcome = "ok" THEN [ok |-> TRUE, w |-> w1]
          ELSE IF outcome \in PermissionCodes \cup ValidationCodes \cup UnexpectedErrors
            THEN [ok |-> FALSE, w |-> w1]
          ELSE IF outcome \in ConnectionErrors /\ retry_count < max_retries - 1
            THEN CallServiceApiBasicOneMore(
                     ReconnectClient(w1, service_name,
                                     outcome = "BotoCoreError:reconnect_ok"),
                     service_name, api_method, param, token, script, retry_count + 1)
          ELSE CallServiceApiBasicOneMore(w1, service_name, api_method, param, token,
                                          script, retry_count + 1)

RECURSIVE CallServiceApiBasicFrom(_, _, _, _, _, _, _)
\* _call_service_api_basic, the while loop from a given retry_count.
\* Returns [ok |-> a response was returned, w |-> the world after the call].
CallServiceApiBasicFrom(w, service_name, api_method, param, token, script, retry_count) ==
    IF ~ (retry_count < max_retries) THEN [ok |-> FALSE, w |-> w]
    ELSE IF ~ GetClient(w, service_name) THEN [ok |-> FALSE, w |-> w]
    ELSE
      LET outcome == script[retry_count + 1]
          w1 == [w EXCEPT !.calls = Append(@, [service |-> service_name,
                                               api |-> api_method,
                                               param |-> param,
                                               token |-> token,
                                               attempt |-> retry_count + 1,
                                               outcome |-> outcome,
                                               backoff |-> BackoffWait(outcome, retry_count)])]
      IN  IF outcome = "ok" THEN [ok |-> TRUE, w |-> w1]
          ELSE IF outcome \in ThrottlingCodes
            THEN CallServiceApiBasicFrom(w1, service_name, api_method, param, token, script, retry_count + 1)
          ELSE IF outcome \in ServiceErrorCodes
            THEN CallServiceApiBasicFrom(w1, service_name, api_method, param, token, script, retry_count + 1)
          ELSE IF outcome \in PermissionCodes THEN [ok |-> FALSE, w |-> w1]
          ELSE IF outcome \in ValidationCodes THEN [ok |-> FALSE, w |-> w1]
          ELSE IF outcome \in ConnectionErrors
            THEN LET w2 == IF retry_count < max_retries - 1
                           THEN ReconnectClient(w1, service_name,
                                                outcome = "BotoCoreError:reconnect_ok")
                           ELSE w1
                 IN  CallServiceApiBasicFrom(w2, service_name, api_method, param, token, script, retry_count + 1)
          ELSE IF outcome \in UnexpectedErrors THEN [ok |-> FALSE, w |-> w1]
          ELSE \* any other ClientError code: retried
               CallServiceApiBasicFrom(w1, service_name, api_method, param, token, script, retry_count + 1)

\* call_service_api with error_handler = None: _call_service_api_basic
CallServiceApi(w, service_name, api_method, param, token, script) ==
    CallServiceApiBasicFrom(w, service_name, api_method, param, token, script, 0)

\* -------------------------------------------------------------- pagination

\* params: what identifies the listed collection (the instance id or the
\* parent's join-key value, None for an account-wide listing).
\* A listing operation as the remote side serves it: npages pages of psize
\* items (every page carrying a cursor when endless), addressed by cursor; the
\* call for page fail_at (0: none) goes as fail_script says, every other call
\* succeeds at once.
ListingScript(env, page) ==
    IF page = env.fail_at THEN env.fail_script ELSE OkScript

\* items of one page: <<page, position>>, so that no two items are equal
PageItems(env, page) ==
    [i \in 1..env.psize |-> <<page, i>>]

\* NextToken of the response for a page: the next page's number, or None
PageNextToken(env, page) ==
    IF env.endless \/ page < env.npages THEN Some(page + 1) ELSE None

\* the page a request with the given NextToken parameter addresses
PageOfToken(token) ==
    IF token = None THEN 1 ELSE Val(token)

\* response.get(response_key, []), response_key being the key _get_response_key
\* gave for the listing (None when it knows none)
ResponseItems(env, page, response_key) ==
    IF response_key = None THEN <<>> ELSE PageItems(env, page)

\* The state of a pagination loop: acc is total_count (a number) or
\* all_resources (a sequence), running tells that the loop was not left yet,
\* w is the world.
LoopStart(w, acc) ==
    [acc |-> acc, next_token |-> None, page_count |-> 0, running |-> TRUE, w |-> w]

\* _count_via_pagination_enhanced, the body of the while loop once the API was
\* called: r is what call_service_api returned
CountPage(r, lp, response_key, env) ==
    IF ~ r.ok
    THEN [lp EXCEPT !.running = FALSE, !.w = r.w]
    ELSE IF PageNextToken(env, PageOfToken(lp.next_token)) = None
    THEN [lp EXCEPT !.acc = @ + Len(ResponseItems(env, PageOfToken(lp.next_token),
                                                  response_key)),
                    !.running = FALSE, !.w = r.w]
    ELSE [lp EXCEPT !.acc = @ + Len(ResponseItems(env, PageOfToken(lp.next_token),
                                                  response_key)),
                    !.next_token = PageNextToken(env, PageOfToken(lp.next_token)),
                    !.page_count = @ + 1, !.w = r.w]

\* the iteration entered once more when page_count = max_pages: one page too many
CountIterationOffByOne(lp, service, api_name, response_key, params, env) ==
    IF ~ (lp.page_count <= max_pages)
    THEN [lp EXCEPT !.running = FALSE]
    ELSE CountPage(CallServiceApi(lp.w, service, api_name, params, lp.next_token,
                                  ListingScript(env, PageOfToken(lp.next_token))),
                   lp, response_key, env)

\* _count_via_pagination_enhanced, the original implementation: the test of
\* the while loop and one iteration
CountIteration(lp, service, api_name, response_key, params, env) ==
    IF ~ (lp.page_count < max_pages)
    THEN [lp EXCEPT !.running = FALSE]
    ELSE CountPage(CallServiceApi(lp.w, service, api_name, params, lp.next_token,
                                  ListingScript(env, PageOfToken(lp.next_token))),
                   lp, response_key, env)

RECURSIVE CountLoop(_, _, _, _, _, _)
\* _count_via_pagination_enhanced, the while loop
CountLoop(lp, service, api_name, response_key, params, env) ==
    IF ~ lp.running THEN [val |-> lp.acc, w |-> lp.w]
    ELSE CountLoop(CountIteration(lp, service, api_name, response_key, params, env),
                   service, api_name, response_key, params, env)

\* _count_via_pagination_enhanced (performance_optimizer = None). The except
\* branch (return None) is not reachable: call_service_api returns None, it
\* does not raise.
CountViaPaginationEnhanced(w, service, api_name, response_key, params, env) ==
    CountLoop(LoopStart(w, 0), service, api_name, response_key, params, env)

\* _get_all_resources, the body of the while loop once the API was called
GetAllPage(r, lp, response_key, env) ==
    IF ~ r.ok
    THEN [lp EXCEPT !.running = FALSE, !.w = r.w]
    ELSE IF PageNextToken(env, PageOfToken(lp.next_token)) = None
    THEN [lp EXCEPT !.acc = @ \o ResponseItems(env, PageOfToken(lp.next_token),
                                               response_key),
                    !.running = FALSE, !.w = r.w]
    ELSE [lp EXCEPT !.acc = @ \o ResponseItems(env, PageOfToken(lp.next_token),
                                               response_key),
                    !.next_token = PageNextToken(env, PageOfToken(lp.next_token)),
                    !.page_count = @ + 1, !.w = r.w]

\* the iteration giving up one page before the ceiling
GetAllIterationShort(lp, service, api_name, response_key, params, env) ==
    IF ~ (lp.page_count < max_pages - 1)
    THEN [lp EXCEPT !.running = FALSE]
    ELSE GetAllPage(CallServiceApi(lp.w, service, api_name, params, lp.next_token,
                                   ListingScript(env, PageOfToken(lp.next_token))),
                    lp, response_key, env)

\* _get_all_resources, the original implementation: the test of the while
\* loop and one iteration
GetAllIteration(lp, service, api_name, response_key, params, env) ==
    IF ~ (lp.page_count < max_pages)
    THEN [lp EXCEPT !.running = FALSE]
    ELSE GetAllPage(CallServiceApi(lp.w, service, api_name, params, lp.next_token,
                                   ListingScript(env, PageOfToken(lp.next_token))),
                    lp, response_key, env)

RECURSIVE GetAllLoop(_, _, _, _, _, _)
\* _get_all_resources, the while loop
GetAllLoop(lp, service, api_name, response_key, params, env) ==
    IF ~ lp.running THEN [val |-> lp.acc, w |-> lp.w]
    ELSE GetAllLoop(GetAllIteration(lp, service, api_name, response_key, params, env),
                    service, api_name, response_key, params, env)

\* _get_all_resources (performance_optimizer = None)
GetAllResources(w, service, api_name, response_key, params, env) ==
    GetAllLoop(LoopStart(w, <<>>), service, api_name, response_key, params, env)

\* ----------------------------------------------------------------- catalog

\* one entry of ENHANCED_CONNECT_QUOTA_METRICS: the keys the handlers read
QuotaConfig(code, scope, method, service, api, parent_service, parent_api, parent_key, metric_name, statistic, default_limit) ==
    [code |-> code, scope |-> scope, method |-> method, service |-> service,
     api |-> api, parent_service |-> parent_service, parent_api |-> parent_api,
     parent_key |-> parent_key, metric_name |-> metric_name,
     statistic |-> statistic, default_limit |-> default_limit]

\* ENHANCED_CONNECT_QUOTA_METRICS: six of its entries, in the order of the
\* source, one for each pair of scope and measurement method the claims are
\* about and two owned by optional services
ENHANCED_CONNECT_QUOTA_METRICS ==
    << QuotaConfig("L-22922690", "ACCOUNT", "api_count", "connect",
                   Some("list_instances"), None, None, None, None, "Maximum", 100),
       QuotaConfig("L-48C6B3F1", "ACCOUNT", "service_quotas", "connect",
                   None, None, None, None, None, "Maximum", 10),
       QuotaConfig("L-CE1CB913", "INSTANCE", "api_count", "connect",
                   Some("list_users"), None, None, None, None, "Maximum", 500),
       QuotaConfig("L-F7D9D426", "INSTANCE", "cloudwatch", "connect",
                   None, None, None, None, Some("ConcurrentCalls"), "Maximum", 10),
       QuotaConfig("L-C7F2E7AB", "INSTANCE", "api_count", "wisdom",
                   Some("list_knowledge_bases"), None, None, None, None, "Maximum", 100),
       QuotaConfig("L-BD0F46E9", "ACCOUNT", "api_count_multi", "customer-profiles",
                   Some("list_profile_object_types"), Some("customer-profiles"),
                   Some("list_domains"), Some("DomainName"), None, "Maximum", 100) >>

\* get_quotas_by_scope: the entries of a scope, in catalog order
GetQuotasByScope(scope) ==
    SelectSeq(ENHANCED_CONNECT_QUOTA_METRICS, LAMBDA q : q.scope = scope)

\* get_account_level_quotas
GetAccountLevelQuotas == GetQuotasByScope("ACCOUNT")

\* get_instance_level_quotas
GetInstanceLevelQuotas == GetQuotasByScope("INSTANCE")

\* _get_response_key: the response_keys table, for the listings above
GetResponseKey(service, api_name) ==
    CASE service = "connect" /\ api_name = "list_instances" -> Some("InstanceSummaryList")
      [] service = "connect" /\ api_name = "list_users" -> Some("UserSummaryList")
      [] service = "connect" /\ api_name = "describe_user_hierarchy_structure" -> None
      [] service = "wisdom" /\ api_name = "list_knowledge_bases" -> Some("knowledgeBaseSummaries")
      [] service = "customer-profiles" /\ api_name = "list_domains" -> Some("Items")
      [] service = "customer-profiles" /\ api_name = "list_profile_object_types" -> Some("Items")
      [] OTHER -> None

\* _build_api_parameters: the instance id the parameters carry, None if none
BuildApiParameters(instance_id, service, scope) ==
    IF scope = "INSTANCE" /\ instance_id /= None
       /\ service \in {"connect", "connectcases", "wisdom", "connect-campaigns"}
    THEN instance_id
    ELSE None

\* ------------------------------------------------------ measurement methods

\* a count as the usage a measurement method returns
CountAsUsage(c) ==
    [val |-> Some(c.val), w |-> c.w]

\* _count_connect_instances
CountConnectInstances(w, env) ==
    CountViaPaginationEnhanced(w, "connect", "list_instances",
                               Some("InstanceSummaryList"), None, env.listing)

\* the levels of a hierarchy structure, LevelOne to LevelFive
HierarchyLevels == 1..5

\* _count_hierarchy_levels once describe_user_hierarchy_structure was called:
\* the levels of the structure that have a name, 0 without a structure
HierarchyLevelCount(r, env) ==
    IF ~ r.ok \/ ~ env.hierarchy.present
    THEN [val |-> 0, w |-> r.w]
    ELSE [val |-> Cardinality(env.hierarchy.named \cap HierarchyLevels), w |-> r.w]

\* _count_hierarchy_levels
CountHierarchyLevels(w, instance_id, env) ==
    HierarchyLevelCount(CallServiceApi(w, "connect", "describe_user_hierarchy_structure",
                                       instance_id, None, env.hierarchy.script),
                        env)

\* _monitor_via_api_count. Returns [val |-> the usage or None, w |-> world].
MonitorViaApiCount(w, instance_id, metric_config, env) ==
    IF metric_config.api = None THEN [val |-> None, w |-> w]
    ELSE IF GetResponseKey(metric_config.service, Val(metric_config.api)) = None
    THEN [val |-> None, w |-> w]
    ELSE IF /\ metric_config.service = "connect"
            /\ Val(metric_config.api) = "describe_user_hierarchy_structure"
    THEN CountAsUsage(CountHierarchyLevels(w, instance_id, env))
    ELSE IF metric_config.service = "connect" /\ Val(metric_config.api) = "list_instances"
    THEN CountAsUsage(CountConnectInstances(w, env))
    ELSE CountAsUsage(CountViaPaginationEnhanced(
             w, metric_config.service, Val(metric_config.api),
             GetResponseKey(metric_config.service, Val(metric_config.api)),
             BuildApiParameters(instance_id, metric_config.service, metric_config.scope),
             env.listing))

\* the listing of one parent's children as the remote side serves it: the
\* i-th parent of a page has i - 1 children per page more than the first, so
\* that parents differ in their numbers of children
ChildListing(env, parent) ==
    IF parent \in env.child_fail
    THEN [env.child EXCEPT !.psize = @ + parent[2] - 1,
                           !.fail_at = 1, !.fail_script = env.listing.fail_script]
    ELSE [env.child EXCEPT !.psize = @ + parent[2] - 1]

RECURSIVE CountChildren(_, _, _, _, _, _, _, _)
RECURSIVE AddChildCount(_, _, _, _, _, _, _, _)

\* _monitor_via_api_count_multi, the end of one iteration of the loop over
\* parent_resources: c is the count of the parent's children
AddChildCount(c, service, api_name, child_response_key, env, parent_resources, i, total_count) ==
    CountChildren(c.w, service, api_name, child_response_key, env,
                  parent_resources, i + 1, total_count + c.val)

\* the loop left at the first parent without the join key
CountChildrenAborting(w, service, api_name, child_response_key, env, parent_resources, i, total_count) ==
    IF i > Len(parent_resources) THEN [val |-> total_count, w |-> w]
    ELSE IF parent_resources[i] \in env.missing_key
    THEN [val |-> total_count, w |-> w]
    ELSE AddChildCount(CountViaPaginationEnhanced(w, service, api_name, child_response_key,
                                                  Some(parent_resources[i]),
                                                  ChildListing(env, parent_resources[i])),
                       service, api_name, child_response_key, env,
                       parent_resources, i, total_count)

\* _monitor_via_api_count_multi, the loop over parent_resources from position i
CountChildren(w, service, api_name, child_response_key, env, parent_resources, i, total_count) ==
    IF i > Len(parent_resources) THEN [val |-> total_count, w |-> w]
    ELSE IF parent_resources[i] \in env.missing_key
    THEN CountChildren(w, service, api_name, child_response_key, env,
                       parent_resources, i + 1, total_count)
    ELSE AddChildCount(CountViaPaginationEnhanced(w, service, api_name, child_response_key,
                                                  Some(parent_resources[i]),
                                                  ChildListing(env, parent_resources[i])),
                       service, api_name, child_response_key, env,
                       parent_resources, i, total_count)

\* _monitor_via_api_count_multi once the parent resources p were collected
CountForParents(p, metric_config, env) ==
    IF p.val = <<>> THEN [val |-> Some(0), w |-> p.w]
    ELSE CountAsUsage(CountChildren(p.w, metric_config.service, Val(metric_config.api),
                                    GetResponseKey(metric_config.service,
                                                   Val(metric_config.api)),
                                    env, p.val, 1, 0))

\* _monitor_via_api_count_multi
MonitorViaApiCountMulti(w, instance_id, metric_config, env) ==
    IF None \in {metric_config.api, metric_config.parent_service,
                 metric_config.parent_api, metric_config.parent_key}
    THEN [val |-> None, w |-> w]
    ELSE IF GetResponseKey(Val(metric_config.parent_service),
                           Val(metric_config.parent_api)) = None
    THEN [val |-> None, w |-> w]
    ELSE CountForParents(
             GetAllResources(w, Val(metric_config.parent_service),
                             Val(metric_config.parent_api),
                             GetResponseKey(Val(metric_config.parent_service),
                                            Val(metric_config.parent_api)),
                             BuildApiParameters(instance_id,
                                                Val(metric_config.parent_service),
                                                metric_config.scope),
                             env.listing),
             metric_config, env)

\* the datapoint sorted first by Timestamp, descending
LatestDatapoint(datapoints) ==
    CHOOSE i \in 1..Len(datapoints) :
        \A j \in 1..Len(datapoints) :
            \/ datapoints[j].Timestamp < datapoints[i].Timestamp
            \/ (datapoints[j].Timestamp = datapoints[i].Timestamp /\ i <= j)

\* _monitor_via_cloudwatch once get_metric_statistics was called
MetricUsage(r, env) ==
    IF ~ r.ok \/ env.metric.Datapoints = <<>>
    THEN [val |-> Some(0), w |-> r.w]
    ELSE [val |-> Some(env.metric.Datapoints[LatestDatapoint(env.metric.Datapoints)].value),
          w |-> r.w]

\* _monitor_via_cloudwatch
MonitorViaCloudwatch(w, instance_id, metric_config, env) ==
    IF metric_config.metric_name = None THEN [val |-> None, w |-> w]
    ELSE MetricUsage(CallServiceApi(w, "cloudwatch", "get_metric_statistics",
                                    IF metric_config.scope = "INSTANCE" /\ instance_id /= None
                                    THEN instance_id ELSE None,
                                    None, env.metric.script),
                     env)

RECURSIVE SumOfDatapoints(_, _)
\* sum(dp.get('Sum', 0) for dp in response['Datapoints']), from the i-th on
SumOfDatapoints(datapoints, i) ==
    IF i > Len(datapoints) THEN 0
    ELSE datapoints[i].value + SumOfDatapoints(datapoints, i + 1)

\* _monitor_via_cloudwatch_api once get_metric_statistics was called: the
\* calls per second over the five minutes of the window
RateUsage(r, env) ==
    IF ~ r.ok \/ env.metric.Datapoints = <<>>
    THEN [val |-> Some(0), w |-> r.w]
    ELSE [val |-> Some(SumOfDatapoints(env.metric.Datapoints, 1) \div 300), w |-> r.w]

\* _monitor_via_cloudwatch_api
MonitorViaCloudwatchApi(w, instance_id, metric_config, env) ==
    IF metric_config.operation = None THEN [val |-> None, w |-> w]
    ELSE RateUsage(CallServiceApi(w, "cloudwatch", "get_metric_statistics",
                                  IF metric_config.scope = "INSTANCE" /\ instance_id /= None
                                  THEN instance_id ELSE None,
                                  None, env.metric.script),
                   env)

\* a lookup that hands back no limit when it fails
LookupUsageNoFallback(r, metric_config, env) ==
    IF ~ r.ok \/ ~ env.lookup.has_quota
    THEN [val |-> None, limit |-> 0, w |-> r.w]
    ELSE [val |-> Some(env.lookup.MetricValue), limit |-> env.lookup.Value, w |-> r.w]

\* _monitor_via_service_quotas once get_service_quota was called
LookupUsage(r, metric_config, env) ==
    IF ~ r.ok \/ ~ env.lookup.has_quota
    THEN [val |-> None, limit |-> metric_config.default_limit, w |-> r.w]
    ELSE [val |-> Some(env.lookup.MetricValue), limit |-> env.lookup.Value, w |-> r.w]

\* _monitor_via_service_quotas, for a quota with context_required False.
\* Returns [val |-> usage or None, limit, w].
MonitorViaServiceQuotas(w, instance_id, metric_config, quota_code, env) ==
    IF quota_code = None
    THEN [val |-> None, limit |-> metric_config.default_limit, w |-> w]
    ELSE LookupUsage(CallServiceApi(w, "service-quotas", "get_service_quota", quota_code,
                                    None, env.lookup.script),
                     metric_config, env)

\* the percentage truncated instead of rounded
Round2Truncating(current_usage, quota_limit) ==
    (current_usage * 10000) \div quota_limit

\* round(x, 2) of x = current_usage / quota_limit * 100, in hundredths of a
\* percent, for quota_limit > 0 (ties to even)
Round2(current_usage, quota_limit) ==
    LET n == current_usage * 10000
        q == n \div quota_limit
        r == n % quota_limit
    IN  IF 2 * r < quota_limit THEN q
        ELSE IF 2 * r > quota_limit THEN q + 1
        ELSE IF q % 2 = 0 THEN q ELSE q + 1

\* _process_quota_config, "Calculate utilization percentage" and the rounding
\* of the result's field
UtilizationPercentage(current_usage, quota_limit) ==
    IF quota_limit > 0 THEN Round2(current_usage, quota_limit) ELSE 0

\* scope checks that let an ACCOUNT quota through with an instance context
ScopeSkippedInstanceOnly(scope, instance_id) ==
    scope = "INSTANCE" /\ instance_id = None

\* _process_quota_config, the scope checks: TRUE iff the quota is skipped
ScopeSkipped(scope, instance_id) ==
    \/ (scope = "INSTANCE" /\ instance_id = None)
    \/ (scope = "ACCOUNT" /\ instance_id /= None)

\* what a measurement method returned, as the dispatch leaves it
Measured(m, quota_limit) ==
    [known |-> TRUE, val |-> m.val, limit |-> quota_limit, w |-> m.w]

\* what _monitor_via_service_quotas returned: the usage and the limit
MeasuredWithLimit(m) ==
    [known |-> TRUE, val |-> m.val, limit |-> m.limit, w |-> m.w]

\* a dispatch that reports usage 0 for a method it does not know
DispatchMethodDefaulting(w, instance_id, metric_config, quota_code, env) ==
    IF metric_config.method = "api_count"
    THEN Measured(MonitorViaApiCount(w, instance_id, metric_config, env),
                  metric_config.default_limit)
    ELSE IF metric_config.method = "api_count_multi"
    THEN Measured(MonitorViaApiCountMulti(w, instance_id, metric_config, env),
                  metric_config.default_limit)
    ELSE IF metric_config.method = "cloudwatch"
    THEN Measured(MonitorViaCloudwatch(w, instance_id, metric_config, env),
                  metric_config.default_limit)
    ELSE IF metric_config.method = "cloudwatch_api"
    THEN Measured(MonitorViaCloudwatchApi(w, instance_id, metric_config, env),
                  metric_config.default_limit)
    ELSE IF metric_config.method = "service_quotas"
    THEN MeasuredWithLimit(MonitorViaServiceQuotas(w, instance_id, metric_config,
                                                   quota_code, env))
    ELSE [known |-> TRUE, val |-> Some(0), limit |-> metric_config.default_limit, w |-> w]

\* _process_quota_config, the dispatch on method, for the methods of the
\* catalog above. Returns [known, val |-> usage or None, limit, w].
DispatchMethod(w, instance_id, metric_config, quota_code, env) ==
    IF metric_config.method = "api_count"
    THEN Measured(MonitorViaApiCount(w, instance_id, metric_config, env),
                  metric_config.default_limit)
    ELSE IF metric_config.method = "api_count_multi"
    THEN Measured(MonitorViaApiCountMulti(w, instance_id, metric_config, env),
                  metric_config.default_limit)
    ELSE IF metric_config.method = "cloudwatch"
    THEN Measured(MonitorViaCloudwatch(w, instance_id, metric_config, env),
                  metric_config.default_limit)
    ELSE IF metric_config.method = "cloudwatch_api"
    THEN Measured(MonitorViaCloudwatchApi(w, instance_id, metric_config, env),
                  metric_config.default_limit)
    ELSE IF metric_config.method = "service_quotas"
    THEN MeasuredWithLimit(MonitorViaServiceQuotas(w, instance_id, metric_config,
                                                   quota_code, env))
    ELSE [known |-> FALSE, val |-> None, limit |-> metric_config.default_limit, w |-> w]

\* _process_quota_config, "Create result"
MakeResult(instance_id, quota_config, quota_code, current_usage, quota_limit) ==
    [quota_code |-> IF quota_code = None THEN "unknown" ELSE Val(quota_code),
     scope |-> quota_config.scope,
     current_usage |-> current_usage,
     quota_limit |-> quota_limit,
     utilization_percentage |-> UtilizationPercentage(current_usage, quota_limit),
     instance_id |-> instance_id,
     method |-> quota_config.method,
     service |-> quota_config.service]

\* _process_quota_config after the dispatch
ResultOf(d, instance_id, quota_config, quota_code) ==
    IF ~ d.known THEN [result |-> None, w |-> d.w]
    ELSE IF d.val = None THEN [result |-> None, w |-> d.w]
    ELSE [result |-> Some(MakeResult(instance_id, quota_config, quota_code,
                                     Val(d.val), d.limit)),
          w |-> d.w]

\* _process_quota_config for a quota in the enhanced format.
\* Returns [result |-> the result record or None, w |-> world].
ProcessQuotaConfig(w, instance_id, quota_config, quota_code, env) ==
    IF ScopeSkipped(quota_config.scope, instance_id) THEN [result |-> None, w |-> w]
    ELSE ResultOf(DispatchMethod(w, instance_id, quota_config, quota_code, env),
                  instance_id, quota_config, quota_code)

\* get_quota_utilization with error_handler = None: _get_quota_utilization_basic
GetQuotaUtilization(w, instance_id, quota_config, quota_code, env) ==
    ProcessQuotaConfig(w, instance_id, quota_config, quota_code, env)

\* ------------------------------------------------------------ alert engine

\* create_alert_engine: None without a topic, else the engine's fields
\* (ALERT_SNS_TOPIC_ARN and THRESHOLD_PERCENTAGE are not set in the environment)
CreateAlertEngine(topic, threshold) ==
    IF topic = None THEN None
    ELSE Some([topic_arn |-> Val(topic),
               threshold_percentage |->
                   IF threshold = None \/ threshold = Some(0)
                   THEN DEFAULT_THRESHOLD ELSE Val(threshold)])

VALID_TOPIC == "arn:aws:sns:us-east-1:111122223333:alerts"
INVALID_TOPIC == "alerts"

\* topic_arn.startswith('arn:aws:sns:')
TopicFormatOk(topic) == topic = VALID_TOPIC

\* validate_sns_configuration: TRUE iff is_valid
ValidateSnsConfiguration(engine, sns_reachable) ==
    IF ~ TopicFormatOk(engine.topic_arn) THEN FALSE
    ELSE sns_reachable

\* the results strictly above the engine's threshold
ExtractViolationsStrict(engine, results) ==
    SelectSeq(results, LAMBDA r : r.utilization_percentage > engine.threshold_percentage * 100)

\* _extract_account_violations / _extract_instance_violations: the results at
\* or above the engine's threshold, in order
ExtractViolations(engine, results) ==
    SelectSeq(results, LAMBDA r : r.utilization_percentage >= engine.threshold_percentage * 100)

\* _extract_account_violations
ExtractAccountViolations(engine, results) ==
    ExtractViolations(engine, results.account_results)

\* _extract_instance_violations
ExtractInstanceViolations(engine, instance_data) ==
    ExtractViolations(engine, instance_data.results)

\* the utilization of the first violation instead of the largest one
FirstUtilization(violations) ==
    violations[1].utilization_percentage

\* max(v.get('utilization_percentage', 0) for v in violations)
MaxUtilization(violations) ==
    LET i == CHOOSE k \in 1..Len(violations) :
                 \A j \in 1..Len(violations) :
                     violations[j].utilization_percentage <= violations[k].utilization_percentage
    IN  violations[i].utilization_percentage

\* _determine_severity
DetermineSeverity(violations) ==
    IF violations = <<>> THEN "INFO"
    ELSE LET max_utilization == MaxUtilization(violations)
         IN  IF max_utilization >= 95 * 100 THEN "CRITICAL"
             ELSE IF max_utilization >= 90 * 100 THEN "HIGH"
             ELSE IF max_utilization >= 85 * 100 THEN "MEDIUM"
             ELSE "LOW"

\* one publish per violation instead of one per target
SendSnsAlertPerViolation(engine, message_data, pub, publish_fails) ==
    IF ~ (engine.topic_arn = "arn:aws:sns:us-east-1:111122223333:alerts")
    THEN [success |-> FALSE, published |-> pub]
    ELSE [success |-> message_data.target \notin publish_fails,
          published |-> pub \o [i \in 1..Len(message_data.violations) |->
                                   [message_data EXCEPT
                                      !.violations = << message_data.violations[i] >>,
                                      !.violations_count = 1]]]

\* sns_client.publish as the sink sees it: the message, and whether the call
\* raised (ghost)
PublishCall(message_data, publish_fails) ==
    [scope |-> message_data.scope, target |-> message_data.target,
     severity |-> message_data.severity,
     violations_count |-> message_data.violations_count,
     violations |-> message_data.violations,
     raised |-> message_data.target \in publish_fails]

\* _send_sns_alert: [success, published |-> the sink's log afterwards].
\* publish raises for the targets in publish_fails.
SendSnsAlert(engine, message_data, pub, publish_fails) ==
    IF ~ TopicFormatOk(engine.topic_arn) THEN [success |-> FALSE, published |-> pub]
    ELSE [success |-> message_data.target \notin publish_fails,
          published |-> Append(pub, PublishCall(message_data, publish_fails))]

\* _send_account_level_alert
SendAccountLevelAlert(engine, violations, pub, publish_fails) ==
    SendSnsAlert(engine,
                 [scope |-> "ACCOUNT", target |-> "ACCOUNT",
                  severity |-> DetermineSeverity(violations),
                  violations_count |-> Len(violations),
                  violations |-> violations],
                 pub, publish_fails)

\* _send_instance_consolidated_alert
SendInstanceConsolidatedAlert(engine, instance_id, violations, pub, publish_fails) ==
    SendSnsAlert(engine,
                 [scope |-> "INSTANCE", target |-> instance_id,
                  severity |-> DetermineSeverity(violations),
                  violations_count |-> Len(violations),
                  violations |-> violations],
                 pub, publish_fails)

\* alert_results as process_monitoring_results initialises it; error is the
\* 'error' key of the dict monitor_and_alert puts in its place when it returns
\* early, processed tells that process_monitoring_results ran (ghost)
EmptyAlertResults ==
    [alerts_sent |-> 0, instances_with_violations |-> 0, total_violations |-> 0,
     account_violations |-> 0, errors |-> <<>>, error |-> "", processed |-> FALSE]

\* process_monitoring_results, the account-level part
ProcessAccountViolations(engine, results, ar, pub, publish_fails) ==
    LET account_violations == ExtractAccountViolations(engine, results)
    IN  IF account_violations = <<>> THEN [ar |-> ar, published |-> pub]
        ELSE LET s == SendAccountLevelAlert(engine, account_violations, pub, publish_fails)
                 ar1 == [ar EXCEPT !.account_violations = Len(account_violations),
                                   !.total_violations = @ + Len(account_violations)]
             IN  [ar |-> IF s.success
                         THEN [ar1 EXCEPT !.alerts_sent = @ + 1]
                         ELSE [ar1 EXCEPT !.errors = Append(@, "ACCOUNT")],
                  published |-> s.published]

RECURSIVE ProcessInstanceViolations(_, _, _, _, _, _)
\* process_monitoring_results, the loop over instance_results from position i
ProcessInstanceViolations(engine, instance_results, i, ar, pub, publish_fails) ==
    IF i > Len(instance_results) THEN [ar |-> ar, published |-> pub]
    ELSE
      LET instance_data == instance_results[i]
          violations == ExtractInstanceViolations(engine, instance_data)
      IN  IF violations = <<>>
          THEN ProcessInstanceViolations(engine, instance_results, i + 1, ar, pub, publish_fails)
          ELSE LET s == SendInstanceConsolidatedAlert(engine, instance_data.instance_id,
                                                      violations, pub, publish_fails)
                   ar1 == [ar EXCEPT !.instances_with_violations = @ + 1,
                                     !.total_violations = @ + Len(violations)]
                   ar2 == IF s.success
                          THEN [ar1 EXCEPT !.alerts_sent = @ + 1]
                          ELSE [ar1 EXCEPT !.errors = Append(@, instance_data.instance_id)]
               IN  ProcessInstanceViolations(engine, instance_results, i + 1, ar2,
                                             s.published, publish_fails)

\* a process_monitoring_results that gives up after a failed account alert
ProcessMonitoringResultsAborting(engine, results, pub, publish_fails) ==
    LET a == ProcessAccountViolations(engine, results, EmptyAlertResults, pub, publish_fails)
        b == ProcessInstanceViolations(engine, results.instance_results, 1, a.ar,
                                       a.published, publish_fails)
    IN  IF a.ar.errors /= <<>>
        THEN [ar |-> [a.ar EXCEPT !.processed = TRUE], published |-> a.published]
        ELSE [ar |-> [b.ar EXCEPT !.processed = TRUE], published |-> b.published]

\* process_monitoring_results
ProcessMonitoringResults(engine, results, pub, publish_fails) ==
    LET a == ProcessAccountViolations(engine, results, EmptyAlertResults, pub, publish_fails)
        b == ProcessInstanceViolations(engine, results.instance_results, 1, a.ar,
                                       a.published, publish_fails)
    IN  [ar |-> [b.ar EXCEPT !.processed = TRUE], published |-> b.published]

\* ---------------------------------------------------------- storage engine

\* FlexibleStorageEngine.__init__ and _validate_configuration: a backend stays
\* enabled only with a bucket / table name and a handle from get_client
FlexibleStorageEngine(storage_config, s3_client, dynamodb_client) ==
    [use_s3 |-> storage_config.use_s3 /\ storage_config.s3_bucket /\ s3_client,
     use_dynamodb |-> storage_config.use_dynamodb /\ storage_config.dynamodb_table
                      /\ dynamodb_client]

\* int(datetime.fromisoformat(timestamp).timestamp()): the clock second of a
\* timestamp given in ticks
SecondOf(timestamp) == timestamp \div TicksPerSecond

\* timestamp.strftime('%Y-%m-%d')
DateOf(timestamp) == SecondOf(timestamp) \div SecondsPerDay

\* datetime.fromisoformat(timestamp).strftime('%H%M%S')
TimeOfDay(timestamp) == SecondOf(timestamp) % SecondsPerDay

\* the violations_count of the prepared data (utilization >= 80)
ViolationsCount(metrics_data) ==
    Cardinality({ i \in 1..Len(metrics_data) :
                    metrics_data[i].utilization_percentage >= 8000 })

\* FlexibleStorageEngine._prepare_instance_metrics; timestamp is what
\* datetime.utcnow() returns and execution_id what uuid.uuid4() returns
PrepareInstanceMetrics(instance_id, metrics_data, timestamp, execution_id) ==
    [record_type |-> "instance_metrics", instance_id |-> Some(instance_id),
     timestamp |-> timestamp, date |-> DateOf(timestamp),
     execution_id |-> execution_id, metrics_count |-> Len(metrics_data),
     violations_count |-> ViolationsCount(metrics_data),
     metrics |-> metrics_data, report |-> None]

\* FlexibleStorageEngine._prepare_account_metrics
PrepareAccountMetrics(metrics_data, timestamp, execution_id) ==
    [record_type |-> "account_metrics", instance_id |-> None,
     timestamp |-> timestamp, date |-> DateOf(timestamp),
     execution_id |-> execution_id, metrics_count |-> Len(metrics_data),
     violations_count |-> ViolationsCount(metrics_data),
     metrics |-> metrics_data, report |-> None]

\* FlexibleStorageEngine._prepare_consolidated_report
PrepareConsolidatedReport(report, timestamp, execution_id) ==
    [record_type |-> "consolidated_report", instance_id |-> None,
     timestamp |-> timestamp, date |-> DateOf(timestamp),
     execution_id |-> execution_id, metrics_count |-> 0,
     violations_count |-> 0, metrics |-> <<>>, report |-> Some(report)]

\* the timestamped key "<prefix>/<date>/[<instance_id>/]<HHMMSS>.json"
TimestampedKey(prefix, data) ==
    [prefix |-> prefix, latest |-> FALSE, date |-> Some(data.date),
     instance_id |-> data.instance_id, time |-> Some(TimeOfDay(data.timestamp))]

\* the fixed key "<prefix>/latest/<name>.json"
LatestKey(prefix, data) ==
    [prefix |-> prefix, latest |-> TRUE, date |-> None,
     instance_id |-> data.instance_id, time |-> None]

\* s3_client.put_object: the object of a key is replaced
PutObject(objects, key, body) ==
    [k \in DOMAIN objects \cup {key} |-> IF k = key THEN body ELSE objects[k]]

\* the body of _store_to_s3_*: the main file, then the latest file, inside one
\* try block whose handler returns False. s3_fail names the put_object that
\* raises (0: none, 1: the main file, 2: the latest file).
PutWithLatest(objects, s3_key, latest_key, data, s3_fail) ==
    IF s3_fail = 1
    THEN [ok |-> FALSE, raised |-> FALSE, objects |-> objects, calls |-> <<s3_key>>]
    ELSE IF s3_fail = 2
    THEN [ok |-> FALSE, raised |-> FALSE, objects |-> PutObject(objects, s3_key, data),
          calls |-> <<s3_key, latest_key>>]
    ELSE [ok |-> TRUE, raised |-> FALSE,
          objects |-> PutObject(PutObject(objects, s3_key, data), latest_key, data),
          calls |-> <<s3_key, latest_key>>]

\* FlexibleStorageEngine._store_to_s3_instance
StoreToS3Instance(objects, data, s3_fail) ==
    PutWithLatest(objects, TimestampedKey("connect-metrics", data),
                  LatestKey("connect-metrics", data), data, s3_fail)

\* FlexibleStorageEngine._store_to_s3_account
StoreToS3Account(objects, data, s3_fail) ==
    PutWithLatest(objects, TimestampedKey("connect-account-metrics", data),
                  LatestKey("connect-account-metrics", data), data, s3_fail)

\* FlexibleStorageEngine._store_to_s3_report
StoreToS3Report(objects, data, s3_fail) ==
    PutWithLatest(objects, TimestampedKey("connect-reports", data),
                  LatestKey("connect-reports", data), data, s3_fail)

\* the record id "<kind>_[<instance_id>_]<epoch second>"
RecordId(kind, data) ==
    [kind |-> kind, instance_id |-> data.instance_id,
     second |-> SecondOf(data.timestamp)]

\* the body of _store_to_dynamodb_*: one put_item under the record id, inside
\* a try block whose handler returns False
PutItem(items, record_id, data, dynamodb_fail) ==
    IF dynamodb_fail
    THEN [ok |-> FALSE, raised |-> FALSE, items |-> items, calls |-> <<record_id>>]
    ELSE [ok |-> TRUE, raised |-> FALSE,
          items |-> [k \in DOMAIN items \cup {record_id} |->
                        IF k = record_id THEN data ELSE items[k]],
          calls |-> <<record_id>>]

\* FlexibleStorageEngine._store_to_dynamodb_instance
StoreToDynamodbInstance(items, data, dynamodb_fail) ==
    PutItem(items, RecordId("instance", data), data, dynamodb_fail)

\* FlexibleStorageEngine._store_to_dynamodb_account
StoreToDynamodbAccount(items, data, dynamodb_fail) ==
    PutItem(items, RecordId("account", data), data, dynamodb_fail)

\* FlexibleStorageEngine._store_to_dynamodb_report
StoreToDynamodbReport(items, data, dynamodb_fail) ==
    PutItem(items, RecordId("report", data), data, dynamodb_fail)

\* storage_results as the store_* functions initialise it, with the state of
\* the backends and the backend calls made
NothingStored(objects, items) ==
    [result |-> [s3_success |-> FALSE, dynamodb_success |-> FALSE, errors |-> <<>>],
     data |-> None, s3_objects |-> objects, dynamodb_items |-> items,
     s3_calls |-> <<>>, dynamodb_calls |-> <<>>]

\* the errors list after the two try blocks: a message is appended only when
\* the _store_to_* call raised
StorageErrors(engine, s3r, ddbr) ==
    (IF engine.use_s3 /\ s3r.raised THEN <<"S3">> ELSE <<>>)
    \o (IF engine.use_dynamodb /\ ddbr.raised THEN <<"DynamoDB">> ELSE <<>>)

\* a store that skips the table store once the object store failed
StoreToBackendsChained(engine, objects, items, data, s3r, ddbr) ==
    [result |-> [s3_success |-> engine.use_s3 /\ s3r.ok,
                 dynamodb_success |-> engine.use_dynamodb /\ ddbr.ok
                                      /\ (engine.use_s3 => s3r.ok),
                 errors |-> StorageErrors(engine, s3r, ddbr)],
     data |-> Some(data),
     s3_objects |-> IF engine.use_s3 THEN s3r.objects ELSE objects,
     dynamodb_items |-> IF engine.use_dynamodb /\ (engine.use_s3 => s3r.ok)
                        THEN ddbr.items ELSE items,
     s3_calls |-> IF engine.use_s3 THEN s3r.calls ELSE <<>>,
     dynamodb_calls |-> IF engine.use_dynamodb /\ (engine.use_s3 => s3r.ok)
                        THEN ddbr.calls ELSE <<>>]

\* the two try blocks of store_instance_metrics, store_account_metrics and
\* store_consolidated_report: s3r and ddbr are what _store_to_s3_* and
\* _store_to_dynamodb_* do when called
StoreToBackends(engine, objects, items, data, s3r, ddbr) ==
    [result |-> [s3_success |-> engine.use_s3 /\ s3r.ok,
                 dynamodb_success |-> engine.use_dynamodb /\ ddbr.ok,
                 errors |-> StorageErrors(engine, s3r, ddbr)],
     data |-> Some(data),
     s3_objects |-> IF engine.use_s3 THEN s3r.objects ELSE objects,
     dynamodb_items |-> IF engine.use_dynamodb THEN ddbr.items ELSE items,
     s3_calls |-> IF engine.use_s3 THEN s3r.calls ELSE <<>>,
     dynamodb_calls |-> IF engine.use_dynamodb THEN ddbr.calls ELSE <<>>]

\* the store_* functions once the data was prepared
StorePrepared(kind, engine, objects, items, data, s3_fail, dynamodb_fail) ==
    IF kind = "instance"
    THEN StoreToBackends(engine, objects, items, data,
                         StoreToS3Instance(objects, data, s3_fail),
                         StoreToDynamodbInstance(items, data, dynamodb_fail))
    ELSE IF kind = "account"
    THEN StoreToBackends(engine, objects, items, data,
                         StoreToS3Account(objects, data, s3_fail),
                         StoreToDynamodbAccount(items, data, dynamodb_fail))
    ELSE StoreToBackends(engine, objects, items, data,
                         StoreToS3Report(objects, data, s3_fail),
                         StoreToDynamodbReport(items, data, dynamodb_fail))

\* FlexibleStorageEngine.store_instance_metrics
StoreInstanceMetrics(engine, objects, items, instance_id, metrics_data, timestamp, execution_id, s3_fail, dynamodb_fail) ==
    IF metrics_data = <<>> THEN NothingStored(objects, items)
    ELSE StorePrepared("instance", engine, objects, items,
                       PrepareInstanceMetrics(instance_id, metrics_data, timestamp,
                                              execution_id),
                       s3_fail, dynamodb_fail)

\* FlexibleStorageEngine.store_account_metrics
StoreAccountMetrics(engine, objects, items, metrics_data, timestamp, execution_id, s3_fail, dynamodb_fail) ==
    IF metrics_data = <<>> THEN NothingStored(objects, items)
    ELSE StorePrepared("account", engine, objects, items,
                       PrepareAccountMetrics(metrics_data, timestamp, execution_id),
                       s3_fail, dynamodb_fail)

\* FlexibleStorageEngine.store_consolidated_report
StoreConsolidatedReport(engine, objects, items, report, timestamp, execution_id, s3_fail, dynamodb_fail) ==
    StorePrepared("report", engine, objects, items,
                  PrepareConsolidatedReport(report, timestamp, execution_id),
                  s3_fail, dynamodb_fail)

\* no storage engine at work, empty backends, and the registry constructed
\* without initialization errors
StorageIdle ==
    /\ storage_engine = [use_s3 |-> FALSE, use_dynamodb |-> FALSE]
    /\ s3_objects = <<>>
    /\ dynamodb_items = <<>>
    /\ stores = <<>>
    /\ now = 0
    /\ initialization_errors = {}
    /\ connectivity = None
    /\ cached_instances = None
    /\ cache_timestamp = None
    /\ dataset = None
    /\ task_results = None
    /\ account_id = None

\* ------------------------------------------------------- instance discovery

\* _enhance_instance_metadata: the fields the monitor uses later (every
\* listed instance has an Id)
EnhanceInstanceMetadata(instance, clock) ==
    [Id |-> instance.Id, IsActive |-> instance.InstanceStatus = "ACTIVE",
     DiscoveredAt |-> clock]

\* the "basic instance processing" loop of _discover_instances_basic
EnhanceAll(listed, clock) ==
    [i \in 1..Len(listed) |-> EnhanceInstanceMetadata(listed[i], clock)]

\* a fallback that never serves the cache
GetFallbackInstancesEmpty(cache) == <<>>

\* _get_fallback_instances: the cached list when there is a non-empty one
GetFallbackInstances(cache) ==
    IF cache.instances /= None /\ Val(cache.instances) /= <<>>
    THEN Val(cache.instances)
    ELSE <<>>

\* what list_instances does when asked for a page of the listing env
DiscoveryScript(env, page) ==
    IF page = env.fail_at THEN env.fail_script ELSE OkScript

RECURSIVE DiscoverPagesFrom(_, _, _, _, _)
RECURSIVE DiscoverNextPage(_, _, _, _, _)
\* _discover_instances_basic, the pagination loop: next_page is the NextToken
\* of the last response (beyond the last page: no token)
DiscoverPagesFrom(w, env, acc, next_page, page_count) ==
    IF next_page > Len(env.pages) \/ ~ (page_count < basic_max_pages)
    THEN [val |-> acc, w |-> w]
    ELSE DiscoverNextPage(CallServiceApi(w, "connect", "list_instances", None,
                                         Some(next_page),
                                         DiscoveryScript(env, next_page)),
                          env, acc, next_page, page_count)

\* the body of that loop once the call returned r
DiscoverNextPage(r, env, acc, page, page_count) ==
    IF r.ok
    THEN DiscoverPagesFrom(r.w, env, acc \o env.pages[page], page + 1, page_count + 1)
    ELSE [val |-> acc, w |-> r.w]

\* _discover_instances_basic after the pagination: the list is enhanced,
\* cached with the clock's reading, and returned
CacheResults(d, clock) ==
    [val |-> EnhanceAll(d.val, clock),
     cache |-> [instances |-> Some(EnhanceAll(d.val, clock)),
                timestamp |-> Some(clock)],
     w |-> d.w]

\* _discover_instances_basic once the first list_instances call returned r
FirstPageListed(r, cache, env, clock) ==
    IF ~ r.ok
    THEN [val |-> GetFallbackInstances(cache), cache |-> cache, w |-> r.w]
    ELSE CacheResults(DiscoverPagesFrom(r.w, env, env.pages[1], 2, 1), clock)

\* _discover_instances_basic
DiscoverInstancesBasic(w, cache, env, clock) ==
    FirstPageListed(CallServiceApi(w, "connect", "list_instances", None, None,
                                   DiscoveryScript(env, 1)),
                    cache, env, clock)

\* a get_connect_instances that serves the cache whatever its age
GetConnectInstancesAgeless(w, cache, force_refresh, env, clock) ==
    IF ~ force_refresh /\ cache.instances /= None /\ cache.timestamp /= None
    THEN [val |-> Val(cache.instances), cache |-> cache, w |-> w]
    ELSE DiscoverInstancesBasic(w, cache, env, clock)

\* get_connect_instances with error_handler = None; clock is what
\* datetime.utcnow() returns, in ticks
GetConnectInstances(w, cache, force_refresh, env, clock) ==
    IF /\ ~ force_refresh
       /\ cache.instances /= None
       /\ cache.timestamp /= None
       /\ clock - Val(cache.timestamp) < CACHE_TTL_SECONDS * TicksPerSecond
    THEN [val |-> Val(cache.instances), cache |-> cache, w |-> w]
    ELSE DiscoverInstancesBasic(w, cache, env, clock)

\* ---------------------------------------------------------- remote inputs

OkListing(npages, psize) ==
    [npages |-> npages, psize |-> psize, endless |-> FALSE,
     fail_at |-> 0, fail_script |-> OkScript]

NoMetric == [script |-> OkScript, Datapoints |-> <<>>]
NoHierarchy == [script |-> OkScript, present |-> FALSE, named |-> {}]
NoLookup == [script |-> OkScript, has_quota |-> FALSE, MetricValue |-> 0, Value |-> 0]

BaseEnv ==
    [listing |-> OkListing(1, 1), missing_key |-> {}, child |-> OkListing(1, 1),
     child_fail |-> {}, metric |-> NoMetric, lookup |-> NoLookup,
     hierarchy |-> NoHierarchy]

\* what the remote side may answer to the calls of one quota resolution in a
\* cycle: all goes well, or a call fails (for a listing, the call for the
\* last page; for a nested count, the listing of the first parent's children)
CycleEnvs(q) ==
    CASE q.method = "api_count" ->
           { [BaseEnv EXCEPT !.listing = [OkListing(MaxListPages, 1) EXCEPT
                                             !.fail_at = k, !.fail_script = DeniedScript]]
             : k \in {0, MaxListPages} }
      [] q.method = "api_count_multi" ->
           { [BaseEnv EXCEPT !.listing = [OkListing(1, 2) EXCEPT
                                             !.fail_script = ThrottledScript],
                             !.child_fail = f]
             : f \in {{}, {<<1, 1>>}} }
      [] q.method = "cloudwatch" ->
           { [BaseEnv EXCEPT !.metric = [script |-> sc,
                                         Datapoints |-> << [Timestamp |-> 1, value |-> 9] >>]]
             : sc \in {OkScript, ThrottledScript} }
      [] q.method = "service_quotas" ->
           { [BaseEnv EXCEPT !.lookup = [script |-> sc, has_quota |-> TRUE,
                                         MetricValue |-> 8, Value |-> 10]]
             : sc \in {OkScript, DeniedScript} }
      [] OTHER -> {BaseEnv}

\* what the remote side may answer to the calls of one get_quota_utilization
ResolveEnvs(q) ==
    CASE q.method = "api_count" ->
           { [BaseEnv EXCEPT !.listing = [OkListing(n, ps) EXCEPT
                                             !.fail_at = k, !.fail_script = sc]]
             : n \in 1..MaxListPages, ps \in 1..MaxPageSize, k \in 0..MaxListPages,
               sc \in FailScripts \cup {ThrottledOnceScript} }
      [] q.method = "api_count_multi" ->
           { [BaseEnv EXCEPT !.listing = [OkListing(n, ps) EXCEPT
                                             !.fail_at = k, !.fail_script = ThrottledScript],
                             !.child = OkListing(1, ps),
                             !.missing_key = m, !.child_fail = f]
             : n \in 1..MaxListPages, ps \in 1..MaxPageSize, k \in 0..1,
               m \in {{}, {<<1, 1>>}, {<<1, 2>>}}, f \in {{}, {<<1, 1>>}} }
      [] q.method = "cloudwatch" ->
           { [BaseEnv EXCEPT !.metric = [script |-> sc, Datapoints |-> dp]]
             : sc \in {OkScript, ThrottledScript, DeniedScript},
               dp \in { <<>>,
                        << [Timestamp |-> 1, value |-> 3] >>,
                        << [Timestamp |-> 1, value |-> 3], [Timestamp |-> 2, value |-> 10] >> } }
      [] q.method = "service_quotas" ->
           { [BaseEnv EXCEPT !.lookup = [script |-> sc, has_quota |-> h,
                                         MetricValue |-> u, Value |-> v]]
             : sc \in {OkScript, DeniedScript}, h \in BOOLEAN,
               u \in {0, 1, 2, 7}, v \in {-1, 0, 3, 10} }
      [] OTHER -> {BaseEnv}

\* the numbers of pages a listing of a pagination run may have: a few, and
\* around the ceiling up to MaxExtraPages more than it
PageCounts ==
    (1..(MaxListPages + 1)) \cup ((max_pages - 1)..(max_pages + MaxExtraPages))

\* the listings a pagination run may meet: so many pages, or a cursor on every
\* page; all calls succeed, or the call for the second page is denied, or the
\* call for the last page under the ceiling is throttled once
PageEnvs ==
    { [npages |-> n, psize |-> ps, endless |-> FALSE, fail_at |-> f[1], fail_script |-> f[2]]
      : n \in PageCounts, ps \in 1..MaxPageSize,
        f \in { <<0, OkScript>>, <<2, DeniedScript>>, <<max_pages, ThrottledOnceScript>> } }
    \cup
    { [npages |-> 1, psize |-> ps, endless |-> TRUE, fail_at |-> f[1], fail_script |-> f[2]]
      : ps \in 1..MaxPageSize,
        f \in { <<0, OkScript>>, <<2, DeniedScript>>, <<max_pages, ThrottledOnceScript>> } }

\* the instances a discovery may return, in discovery order
AllInstances == <<"i-1", "i-2", "i-3">>
InstanceLists == { SubSeq(AllInstances, 1, n) : n \in 0..MaxInstances }

\* the registry with a healthy handle for every service
HealthyRegistry ==
    [clients |-> SUPPORTED_SERVICES, client_health |-> [x \in SUPPORTED_SERVICES |-> TRUE]]

\* the registry after construction and any health checks: the required
\* services have a healthy handle; at most one optional service has no
\* handle, or has one and is marked unhealthy
RegistryStates ==
    { HealthyRegistry }
    \cup { [clients |-> SUPPORTED_SERVICES \ {s},
            client_health |-> [x \in SUPPORTED_SERVICES |-> x /= s]] : s \in OptionalServices }
    \cup { [clients |-> SUPPORTED_SERVICES,
            client_health |-> [x \in SUPPORTED_SERVICES |-> x /= s]] : s \in OptionalServices }

\* the world a handler starts in
World == [clients |-> clients, client_health |-> client_health, calls |-> <<>>]

\* ------------------------------------------------------- the monitoring cycle

\* monitoring_results as monitor_all_instances_dynamically initialises it
\* (instance_results keeps the insertion order of the dict)
EmptyMonitoringResults ==
    [status |-> "success", instances_monitored |-> 0, total_quotas_checked |-> 0,
     violations_found |-> 0, instance_results |-> <<>>, account_quotas_checked |-> 0,
     errors |-> <<>>, account_results |-> <<>>]

\* monitor_all_instances_dynamically, the threshold it compares with
MonitoringThreshold(threshold) ==
    IF threshold = None THEN DEFAULT_THRESHOLD ELSE Val(threshold)

\* result['utilization_percentage'] >= threshold_percentage
IsViolation(result, threshold) ==
    result.utilization_percentage >= threshold * 100

\* account loop: what one get_quota_utilization result does to the summary
AddAccountResult(mr, result, threshold) ==
    IF result = None THEN mr
    ELSE [mr EXCEPT !.account_results = Append(@, Val(result)),
                    !.total_quotas_checked = @ + 1,
                    !.violations_found =
                        IF IsViolation(Val(result), threshold) THEN @ + 1 ELSE @]

\* the two assignments after the account loop
CloseAccountLoop(mr) ==
    [mr EXCEPT !.account_quotas_checked = Len(mr.account_results)]

\* instance quota loop: what one result does to instance_results and
\* instance_violations
AddInstanceResult(l, result, threshold) ==
    IF result = None THEN l
    ELSE [instance_results |-> Append(l.instance_results, Val(result)),
          instance_violations |->
              IF IsViolation(Val(result), threshold)
              THEN l.instance_violations + 1 ELSE l.instance_violations]

\* instance quota loop: what one result does to the summary
CountInstanceResult(mr, result, threshold) ==
    IF result = None THEN mr
    ELSE [mr EXCEPT !.total_quotas_checked = @ + 1,
                    !.violations_found =
                        IF IsViolation(Val(result), threshold) THEN @ + 1 ELSE @]

\* the entry of an instance and the count of monitored instances
AddInstanceEntry(mr, instance_id, l) ==
    [mr EXCEPT !.instance_results =
                   Append(@, [instance_id |-> instance_id,
                              quotas_checked |-> Len(l.instance_results),
                              violations |-> l.instance_violations,
                              results |-> l.instance_results]),
               !.instances_monitored = @ + 1]

\* validate_instance_permissions
ValidateInstancePermissions(w, instance_id, script) ==
    CallServiceApi(w, "connect", "list_users", Some(instance_id), None, script)

\* what is remembered of one get_quota_utilization call: the quota, the
\* context, what the remote side answered, the result, the remote invocations
\* made and the registry before and after
HistoryEntry(q, instance_id, env, r) ==
    [quota_code |-> q.code, method |-> q.method, service |-> q.service,
     scope |-> q.scope, instance_id |-> instance_id, env |-> env,
     result |-> r.result, calls |-> r.w.calls,
     available |-> GetClient(World, q.service),
     health_before |-> client_health, health_after |-> r.w.client_health]

NoLocals == [instance_results |-> <<>>, instance_violations |-> 0]

\* monitor_all_instances_dynamically up to the account loop: the discovery of
\* the active instances
StartMonitoring ==
    /\ pc = "start"
    /\ \E l \in InstanceLists :
         /\ instances' = l
         /\ IF l = <<>>
            THEN /\ monitoring_results' = [EmptyMonitoringResults EXCEPT !.status = "no_instances"]
                 /\ pc' = "alert"
            ELSE /\ monitoring_results' = EmptyMonitoringResults
                 /\ pc' = "account"
    /\ quota_idx' = 1
    /\ instance_idx' = 1
    /\ UNCHANGED <<clients, client_health, calls, threshold_percentage, history,
                   alert_results, published, topic_arn, locals, page_in, page_out>>
    /\ UNCHANGED storageVars

\* the account quota loop after get_quota_utilization returned r
AccountQuotaDone(q, env, r, last) ==
    /\ monitoring_results' =
           IF last
           THEN CloseAccountLoop(AddAccountResult(monitoring_results, r.result,
                                                  MonitoringThreshold(threshold_percentage)))
           ELSE AddAccountResult(monitoring_results, r.result,
                                 MonitoringThreshold(threshold_percentage))
    /\ history' = Append(history, HistoryEntry(q, None, env, r))
    /\ clients' = r.w.clients
    /\ client_health' = r.w.client_health
    /\ calls' = r.w.calls
    /\ quota_idx' = IF last THEN 0 ELSE quota_idx + 1
    /\ pc' = IF last THEN "instances" ELSE "account"

\* monitor_all_instances_dynamically, one iteration of the account quota loop
MonitorAccountQuota ==
    /\ pc = "account"
    /\ \E env \in CycleEnvs(GetAccountLevelQuotas[quota_idx]) :
         AccountQuotaDone(GetAccountLevelQuotas[quota_idx], env,
                          GetQuotaUtilization(World, None, GetAccountLevelQuotas[quota_idx],
                                              Some(GetAccountLevelQuotas[quota_idx].code), env),
                          quota_idx = Len(GetAccountLevelQuotas))
    /\ UNCHANGED <<threshold_percentage, instances, instance_idx, alert_results,
                   published, topic_arn, locals, page_in, page_out>>
    /\ UNCHANGED storageVars

\* the instance loop after validate_instance_permissions returned v
PermissionsChecked(instance_id, v, last) ==
    /\ clients' = v.w.clients
    /\ client_health' = v.w.client_health
    /\ calls' = v.w.calls
    /\ IF v.ok
       THEN /\ quota_idx' = 1
            /\ UNCHANGED <<monitoring_results, instance_idx, pc>>
       ELSE /\ monitoring_results' =
                  [monitoring_results EXCEPT
                     !.errors = Append(@, [kind |-> "permissions",
                                           instance_id |-> Some(instance_id),
                                           quota_code |-> None])]
            /\ instance_idx' = instance_idx + 1
            /\ pc' = IF last THEN "alert" ELSE "instances"
            /\ UNCHANGED quota_idx

\* monitor_all_instances_dynamically, sequential path: the start of one
\* iteration of the instance loop (validate_instance_permissions)
MonitorInstance ==
    /\ pc = "instances"
    /\ quota_idx = 0
    /\ \E script \in {OkScript, DeniedScript} :
         PermissionsChecked(instances[instance_idx],
                            ValidateInstancePermissions(World, instances[instance_idx], script),
                            instance_idx = Len(instances))
    /\ locals' = NoLocals
    /\ UNCHANGED <<threshold_percentage, instances, history, alert_results,
                   published, topic_arn, page_in, page_out>>
    /\ UNCHANGED storageVars

\* the quota loop of an instance after get_quota_utilization returned r
InstanceQuotaDone(q, instance_id, env, r, last_quota, last_instance) ==
    /\ history' = Append(history, HistoryEntry(q, Some(instance_id), env, r))
    /\ clients' = r.w.clients
    /\ client_health' = r.w.client_health
    /\ calls' = r.w.calls
    /\ IF last_quota
       THEN /\ monitoring_results' =
                  AddInstanceEntry(
                      CountInstanceResult(monitoring_results, r.result,
                                          MonitoringThreshold(threshold_percentage)),
                      instance_id,
                      AddInstanceResult(locals, r.result,
                                        MonitoringThreshold(threshold_percentage)))
            /\ locals' = NoLocals
            /\ quota_idx' = 0
            /\ instance_idx' = instance_idx + 1
            /\ pc' = IF last_instance THEN "alert" ELSE "instances"
       ELSE /\ monitoring_results' =
                  CountInstanceResult(monitoring_results, r.result,
                                      MonitoringThreshold(threshold_percentage))
            /\ locals' = AddInstanceResult(locals, r.result,
                                           MonitoringThreshold(threshold_percentage))
            /\ quota_idx' = quota_idx + 1
            /\ UNCHANGED <<instance_idx, pc>>

\* monitor_all_instances_dynamically, sequential path: one iteration of the
\* quota loop of an instance, and after the last quota the instance's entry
MonitorInstanceQuota ==
    /\ pc = "instances"
    /\ quota_idx >= 1
    /\ \E env \in CycleEnvs(GetInstanceLevelQuotas[quota_idx]) :
         InstanceQuotaDone(GetInstanceLevelQuotas[quota_idx], instances[instance_idx], env,
                           GetQuotaUtilization(World, Some(instances[instance_idx]),
                                               GetInstanceLevelQuotas[quota_idx],
                                               Some(GetInstanceLevelQuotas[quota_idx].code),
                                               env),
                           quota_idx = Len(GetInstanceLevelQuotas),
                           instance_idx = Len(instances))
    /\ UNCHANGED <<threshold_percentage, instances, alert_results, published,
                   topic_arn, page_in, page_out>>
    /\ UNCHANGED storageVars

\* monitor_and_alert once the alert engine was created
AlertWith(alert_engine, sns_reachable, publish_fails) ==
    IF alert_engine = None
    THEN /\ alert_results' = [EmptyAlertResults EXCEPT
                                !.error = "Failed to create alert engine"]
         /\ UNCHANGED published
    ELSE IF ~ ValidateSnsConfiguration(Val(alert_engine), sns_reachable)
    THEN /\ alert_results' = [EmptyAlertResults EXCEPT
                                !.error = "SNS configuration invalid"]
         /\ UNCHANGED published
    ELSE IF monitoring_results.violations_found > 0
    THEN /\ alert_results' =
               ProcessMonitoringResults(Val(alert_engine), monitoring_results,
                                        published, publish_fails).ar
         /\ published' =
               ProcessMonitoringResults(Val(alert_engine), monitoring_results,
                                        published, publish_fails).published
    ELSE /\ alert_results' = EmptyAlertResults
         /\ UNCHANGED published

\* monitor_and_alert after the monitoring: create_alert_engine,
\* validate_sns_configuration and process_monitoring_results
AlertStage ==
    /\ pc = "alert"
    /\ \E topic \in {None, Some(INVALID_TOPIC), Some(VALID_TOPIC)},
          sns_reachable \in BOOLEAN,
          publish_fails \in SUBSET ({"ACCOUNT"} \cup
                                       { instances[i] : i \in 1..Len(instances) }) :
         /\ topic_arn' = topic
         /\ AlertWith(CreateAlertEngine(topic, threshold_percentage),
                      sns_reachable, publish_fails)
    /\ pc' = "done"
    /\ UNCHANGED <<clients, client_health, calls, threshold_percentage, instances,
                   quota_idx, instance_idx, monitoring_results, history, locals,
                   page_in, page_out>>
    /\ UNCHANGED storageVars

Thresholds == {None, Some(0), Some(80), Some(90)}

Init ==
    /\ \E reg \in RegistryStates :
         /\ clients = reg.clients
         /\ client_health = reg.client_health
    /\ calls = <<>>
    /\ pc = "start"
    /\ threshold_percentage \in Thresholds
    /\ instances = <<>>
    /\ quota_idx = 1
    /\ instance_idx = 1
    /\ monitoring_results = EmptyMonitoringResults
    /\ history = <<>>
    /\ alert_results = EmptyAlertResults
    /\ published = <<>>
    /\ topic_arn = None
    /\ locals = NoLocals
    /\ page_in = None
    /\ page_out = None
    /\ StorageIdle

Next ==
    \/ StartMonitoring
    \/ MonitorAccountQuota
    \/ MonitorInstance
    \/ MonitorInstanceQuota
    \/ AlertStage

\* one monitor_and_alert cycle, sequential path
Spec == Init /\ [][Next]_vars

\* the keys of the dict monitor_all_instances_dynamically returns: the early
\* return without active instances, or the summary it initialises and fills
MonitoringResultKeys(mr) ==
    IF mr.status = "no_instances"
    THEN {"status", "message", "instances_checked", "quotas_monitored"}
    ELSE {"status", "instances_monitored", "total_quotas_checked", "violations_found",
          "instance_results", "account_quotas_checked", "errors", "account_results"}

\* the keys of the dict monitor_and_alert stores under 'alert_results': the
\* one of an early return, or the one process_monitoring_results fills
AlertResultKeys(ar) ==
    IF ar.error /= ""
    THEN {"error"}
    ELSE {"alerts_sent", "instances_with_violations", "total_violations",
          "account_violations", "errors"}

\* ------------------------------------------------ one quota resolution

\* get_quota_utilization called once after the action finished
ResolveDone(q, instance_id, env, r) ==
    /\ history' = << HistoryEntry(q, instance_id, env, r) >>
    /\ clients' = r.w.clients
    /\ client_health' = r.w.client_health
    /\ calls' = r.w.calls
    /\ pc' = "resolved"

\* get_quota_utilization for any quota of the catalog, with or without an
\* instance context, whatever the remote side answers
Resolve ==
    /\ pc = "resolve"
    /\ \E i \in 1..Len(ENHANCED_CONNECT_QUOTA_METRICS),
          instance_id \in {None, Some(AllInstances[1])} :
         \E env \in ResolveEnvs(ENHANCED_CONNECT_QUOTA_METRICS[i]) :
           ResolveDone(ENHANCED_CONNECT_QUOTA_METRICS[i], instance_id, env,
                       GetQuotaUtilization(World, instance_id,
                                           ENHANCED_CONNECT_QUOTA_METRICS[i],
                                           Some(ENHANCED_CONNECT_QUOTA_METRICS[i].code), env))
    /\ UNCHANGED <<threshold_percentage, instances, quota_idx, instance_idx,
                   monitoring_results, alert_results, published, topic_arn, locals,
                   page_in, page_out>>
    /\ UNCHANGED storageVars

InitResolve ==
    /\ \E reg \in RegistryStates :
         /\ clients = reg.clients
         /\ client_health = reg.client_health
    /\ calls = <<>>
    /\ pc = "resolve"
    /\ threshold_percentage = None
    /\ instances = <<>>
    /\ quota_idx = 1
    /\ instance_idx = 1
    /\ monitoring_results = EmptyMonitoringResults
    /\ history = <<>>
    /\ alert_results = EmptyAlertResults
    /\ published = <<>>
    /\ topic_arn = None
    /\ locals = NoLocals
    /\ page_in = None
    /\ page_out = None
    /\ StorageIdle

NextResolve == Resolve

\* one call of get_quota_utilization
SpecResolve == InitResolve /\ [][NextResolve]_vars

\* ------------------------------------------------------ one pagination run

\* the loop state page_out keeps (the world is in clients, client_health, calls)
LoopVars(lp, mode) ==
    [mode |-> mode, acc |-> lp.acc, next_token |-> lp.next_token,
     page_count |-> lp.page_count, running |-> lp.running]

\* the loop state of page_out in the current world
CurrentLoop ==
    [acc |-> Val(page_out).acc, next_token |-> Val(page_out).next_token,
     page_count |-> Val(page_out).page_count, running |-> Val(page_out).running,
     w |-> [clients |-> clients, client_health |-> client_health, calls |-> calls]]

\* the state after one iteration left the loop state lp
Iterated(lp, mode) ==
    /\ page_out' = Some(LoopVars(lp, mode))
    /\ calls' = lp.w.calls
    /\ clients' = lp.w.clients
    /\ client_health' = lp.w.client_health
    /\ pc' = IF lp.running THEN "paging" ELSE "paged"

\* _count_via_pagination_enhanced or _get_all_resources is called for the
\* listing page_in: the initialisation before the while loop
StartPaging ==
    /\ pc = "page"
    /\ \E mode \in {"count", "collect"} :
         page_out' = Some(LoopVars(LoopStart(World, IF mode = "count" THEN 0 ELSE <<>>),
                                   mode))
    /\ pc' = "paging"
    /\ UNCHANGED <<clients, client_health, calls, threshold_percentage, instances,
                   quota_idx, instance_idx, monitoring_results, history, alert_results,
                   published, topic_arn, locals, page_in>>
    /\ UNCHANGED storageVars

\* _count_via_pagination_enhanced: the loop test and one iteration
CountIterate ==
    /\ pc = "paging"
    /\ Val(page_out).mode = "count"
    /\ Iterated(CountIteration(CurrentLoop, "connect", "list_users",
                               GetResponseKey("connect", "list_users"),
                               Some(AllInstances[1]), Val(page_in)),
                "count")
    /\ UNCHANGED <<threshold_percentage, instances, quota_idx, instance_idx,
                   monitoring_results, history, alert_results, published, topic_arn,
                   locals, page_in>>
    /\ UNCHANGED storageVars

\* _get_all_resources: the loop test and one iteration
GetAllIterate ==
    /\ pc = "paging"
    /\ Val(page_out).mode = "collect"
    /\ Iterated(GetAllIteration(CurrentLoop, "connect", "list_users",
                                GetResponseKey("connect", "list_users"),
                                Some(AllInstances[1]), Val(page_in)),
                "collect")
    /\ UNCHANGED <<threshold_percentage, instances, quota_idx, instance_idx,
                   monitoring_results, history, alert_results, published, topic_arn,
                   locals, page_in>>
    /\ UNCHANGED storageVars

InitPage ==
    /\ clients = HealthyRegistry.clients
    /\ client_health = HealthyRegistry.client_health
    /\ calls = <<>>
    /\ pc = "page"
    /\ threshold_percentage = None
    /\ instances = <<>>
    /\ quota_idx = 1
    /\ instance_idx = 1
    /\ monitoring_results = EmptyMonitoringResults
    /\ history = <<>>
    /\ alert_results = EmptyAlertResults
    /\ published = <<>>
    /\ topic_arn = None
    /\ locals = NoLocals
    /\ \E env \in PageEnvs : page_in = Some(env)
    /\ page_out = None
    /\ StorageIdle

NextPage ==
    \/ StartPaging
    \/ CountIterate
    \/ GetAllIterate

\* one pagination run, counting or collecting
SpecPage == InitPage /\ [][NextPage]_vars

\* ------------------------------------------- alerts for a cycle's summary

\* usages a quota may show in a cycle's summary, some of them on a threshold
\* or on a severity boundary
DrawnUsages(q) ==
    CASE q.code = "L-22922690" -> {79, 80, 95}
      [] q.code = "L-48C6B3F1" -> {8499, 8500}
      [] q.code = "L-BD0F46E9" -> {90}
      [] q.code = "L-CE1CB913" -> {399, 400}
      [] q.code = "L-F7D9D426" -> {9}
      [] q.code = "L-C7F2E7AB" -> {85, 95}
      [] OTHER -> {}

\* the limit of such a result: the default, or for a looked-up quota the
\* limit the lookup returned
DrawnLimit(q) ==
    IF q.method = "service_quotas" THEN 10000 ELSE q.default_limit

RECURSIVE DrawnBatches(_, _, _)
\* the result lists a quota loop may leave for the quotas from position i on:
\* in catalog order, each quota without a result or with one
DrawnBatches(quotas, i, instance_id) ==
    IF i > Len(quotas) THEN { <<>> }
    ELSE DrawnBatches(quotas, i + 1, instance_id)
         \cup { << MakeResult(instance_id, quotas[i], Some(quotas[i].code), u,
                              DrawnLimit(quotas[i])) >> \o b
                : u \in DrawnUsages(quotas[i]),
                  b \in DrawnBatches(quotas, i + 1, instance_id) }

\* the number of results of a list at or above the threshold
ViolationCount(results, threshold) ==
    Cardinality({ i \in 1..Len(results) : IsViolation(results[i], threshold) })

RECURSIVE AllInstanceResults(_, _)
\* the results of the instances from position i on, in order
AllInstanceResults(batches, i) ==
    IF i > Len(batches) THEN <<>>
    ELSE batches[i] \o AllInstanceResults(batches, i + 1)

\* the summary monitor_all_instances_dynamically returns when the account
\* loop left account_results and the instance loop left batches[i] for the
\* i-th instance
SummaryOf(account_results, insts, batches, threshold) ==
    [status |-> "success",
     instances_monitored |-> Len(insts),
     total_quotas_checked |-> Len(account_results) + Len(AllInstanceResults(batches, 1)),
     violations_found |-> ViolationCount(account_results, threshold)
                          + ViolationCount(AllInstanceResults(batches, 1), threshold),
     instance_results |-> [i \in 1..Len(insts) |->
                              [instance_id |-> insts[i],
                               quotas_checked |-> Len(batches[i]),
                               violations |-> ViolationCount(batches[i], threshold),
                               results |-> batches[i]]],
     account_quotas_checked |-> Len(account_results),
     errors |-> <<>>,
     account_results |-> account_results]

\* the summaries of the cycles over the instances insts
DrawnSummaries(insts, threshold) ==
    { SummaryOf(a, insts, b, threshold)
      : a \in DrawnBatches(GetAccountLevelQuotas, 1, None),
        b \in { f \in [1..Len(insts) ->
                         UNION { DrawnBatches(GetInstanceLevelQuotas, 1, Some(insts[i]))
                                 : i \in 1..Len(insts) }]
                : \A i \in 1..Len(insts) :
                     f[i] \in DrawnBatches(GetInstanceLevelQuotas, 1, Some(insts[i])) } }

AlertThresholds == {None, Some(0), Some(90)}

InitAlert ==
    /\ clients = HealthyRegistry.clients
    /\ client_health = HealthyRegistry.client_health
    /\ calls = <<>>
    /\ pc = "alert"
    /\ threshold_percentage \in AlertThresholds
    /\ instances \in InstanceLists \ { <<>> }
    /\ quota_idx = 0
    /\ instance_idx = Len(instances) + 1
    /\ monitoring_results \in DrawnSummaries(instances,
                                             MonitoringThreshold(threshold_percentage))
    /\ history = <<>>
    /\ alert_results = EmptyAlertResults
    /\ published = <<>>
    /\ topic_arn = None
    /\ locals = NoLocals
    /\ page_in = None
    /\ page_out = None
    /\ StorageIdle

NextAlert == AlertStage

\* the alert stage of monitor_and_alert on the summary of a cycle
SpecAlert == InitAlert /\ [][NextAlert]_vars

\* ------------------------------------------- stores on one storage engine

\* the batches of utilization results handed to a store
Batches ==
    { <<>>,
      <<[quota_code |-> "L-22922690", utilization_percentage |-> 9000]>> }

\* the cycle summaries handed to store_consolidated_report
Reports == { [instances_monitored |-> 1, violations_found |-> 1, alerts_sent |-> 1] }

\* the storage_config of create_storage_engine
StorageConfigs ==
    [use_s3 : BOOLEAN, use_dynamodb : BOOLEAN, s3_bucket : BOOLEAN,
     dynamodb_table : BOOLEAN]

\* which put_object of a store raises, and whether put_item raises
S3Failures(engine) == IF engine.use_s3 THEN 0..2 ELSE {0}
DynamodbFailures(engine) == IF engine.use_dynamodb THEN BOOLEAN ELSE {FALSE}

\* the caller of a store_* function once it returned r
Stored(kind, instance_id, input, s3_fail, dynamodb_fail, r) ==
    /\ s3_objects' = r.s3_objects
    /\ dynamodb_items' = r.dynamodb_items
    /\ stores' = Append(stores,
                        [kind |-> kind, instance_id |-> instance_id, input |-> input,
                         timestamp |-> now, s3_fail |-> s3_fail,
                         dynamodb_fail |-> dynamodb_fail, result |-> r.result,
                         data |-> r.data, s3_calls |-> r.s3_calls,
                         dynamodb_calls |-> r.dynamodb_calls])

\* one store_instance_metrics call, for the first instance
StoreInstance ==
    /\ pc = "store"
    /\ Len(stores) < MaxStores
    /\ \E metrics_data \in Batches,
          s3_fail \in S3Failures(storage_engine),
          dynamodb_fail \in DynamodbFailures(storage_engine) :
         Stored("instance", Some(AllInstances[1]), metrics_data, s3_fail, dynamodb_fail,
                StoreInstanceMetrics(storage_engine, s3_objects, dynamodb_items,
                                     AllInstances[1], metrics_data, now,
                                     Len(stores) + 1, s3_fail, dynamodb_fail))
    /\ UNCHANGED <<storage_engine, now, initialization_errors, connectivity,
                   cached_instances, cache_timestamp, dataset, task_results, account_id>>
    /\ UNCHANGED monitorVars

\* one store_account_metrics call
StoreAccount ==
    /\ pc = "store"
    /\ Len(stores) < MaxStores
    /\ \E metrics_data \in Batches,
          s3_fail \in S3Failures(storage_engine),
          dynamodb_fail \in DynamodbFailures(storage_engine) :
         Stored("account", None, metrics_data, s3_fail, dynamodb_fail,
                StoreAccountMetrics(storage_engine, s3_objects, dynamodb_items,
                                    metrics_data, now, Len(stores) + 1,
                                    s3_fail, dynamodb_fail))
    /\ UNCHANGED <<storage_engine, now, initialization_errors, connectivity,
                   cached_instances, cache_timestamp, dataset, task_results, account_id>>
    /\ UNCHANGED monitorVars

\* one store_consolidated_report call
StoreReport ==
    /\ pc = "store"
    /\ Len(stores) < MaxStores
    /\ \E report \in Reports,
          s3_fail \in S3Failures(storage_engine),
          dynamodb_fail \in DynamodbFailures(storage_engine) :
         Stored("report", None, <<report>>, s3_fail, dynamodb_fail,
                StoreConsolidatedReport(storage_engine, s3_objects, dynamodb_items,
                                        report, now, Len(stores) + 1,
                                        s3_fail, dynamodb_fail))
    /\ UNCHANGED <<storage_engine, now, initialization_errors, connectivity,
                   cached_instances, cache_timestamp, dataset, task_results, account_id>>
    /\ UNCHANGED monitorVars

\* the clock advances between two calls
Tick ==
    /\ pc = "store"
    /\ now < MaxClock
    /\ now' = now + 1
    /\ UNCHANGED <<storage_engine, s3_objects, dynamodb_items, stores,
                   initialization_errors, connectivity, cached_instances,
                   cache_timestamp, dataset, task_results, account_id>>
    /\ UNCHANGED monitorVars

InitStore ==
    /\ clients = HealthyRegistry.clients
    /\ client_health = HealthyRegistry.client_health
    /\ calls = <<>>
    /\ pc = "store"
    /\ threshold_percentage = None
    /\ instances = <<>>
    /\ quota_idx = 1
    /\ instance_idx = 1
    /\ monitoring_results = EmptyMonitoringResults
    /\ history = <<>>
    /\ alert_results = EmptyAlertResults
    /\ published = <<>>
    /\ topic_arn = None
    /\ locals = NoLocals
    /\ page_in = None
    /\ page_out = None
    /\ \E storage_config \in StorageConfigs, s3_client \in BOOLEAN,
          dynamodb_client \in BOOLEAN :
         storage_engine = FlexibleStorageEngine(storage_config, s3_client,
                                                dynamodb_client)
    /\ s3_objects = <<>>
    /\ dynamodb_items = <<>>
    /\ stores = <<>>
    /\ now = 0
    /\ initialization_errors = {}
    /\ connectivity = None
    /\ cached_instances = None
    /\ cache_timestamp = None
    /\ dataset = None
    /\ task_results = None
    /\ account_id = None

\* monitor_and_store: storage_results['storage_errors'] after the first n
\* stores, each store's errors list appended when it is not empty
RECURSIVE CollectStorageErrors(_, _)
CollectStorageErrors(log, n) ==
    IF n = 0 THEN <<>>
    ELSE CollectStorageErrors(log, n - 1) \o log[n].result.errors

NextStore ==
    \/ StoreInstance
    \/ StoreAccount
    \/ StoreReport
    \/ Tick

\* stores made on one storage engine while the clock advances
SpecStore == InitStore /\ [][NextStore]_vars

\* ------------------------------------- construction and health of the registry

\* what each declared service does when its handle is created and tested:
\* session.client raises ("no_client"), or the handle is returned and the
\* no-op call of a required service has one of the connectivity outcomes
ConstructionOutcomes ==
    { f \in [SUPPORTED_SERVICES -> {"no_client"} \cup ConnectivityOutcomes] :
        \A s \in OptionalServices : f[s] \in {"no_client", "ok"} }

\* what the no-op call of each required service does during a health check
HealthCheckOutcomes ==
    { f \in [SUPPORTED_SERVICES -> ConnectivityOutcomes] :
        \A s \in OptionalServices : f[s] = "ok" }

\* outcomes, with the services after the n-th declared one marked as not tried
Tried(outcomes, n) ==
    [s \in SUPPORTED_SERVICES |->
        IF \E i \in 1..n : DeclaredServices[i] = s THEN outcomes[s] ELSE "untried"]

\* MultiServiceClientManager.__init__ once _initialize_all_clients returned or
\* raised
Constructed(outcomes, r) ==
    /\ clients' = r.w.clients
    /\ client_health' = r.w.client_health
    /\ initialization_errors' = r.initialization_errors
    /\ connectivity' = Some([handler |-> "construct",
                             outcomes |-> Tried(outcomes, r.attempted),
                             attempted |-> r.attempted])
    /\ pc' = IF r.raised THEN "aborted" ELSE "constructed"

\* MultiServiceClientManager.__init__
Construct ==
    /\ pc = "construct"
    /\ \E outcomes \in ConstructionOutcomes :
         Constructed(outcomes, InitializeAllClients(World, {}, 1, outcomes))
    /\ UNCHANGED <<calls, threshold_percentage, instances, quota_idx, instance_idx,
                   monitoring_results, history, alert_results, published, topic_arn,
                   locals, page_in, page_out, storage_engine, s3_objects,
                   dynamodb_items, stores, now, cached_instances, cache_timestamp, dataset, task_results, account_id>>

\* MultiServiceClientManager.health_check on a constructed registry
CheckHealth ==
    /\ pc \in {"constructed", "checked"}
    /\ \E outcomes \in HealthCheckOutcomes :
         /\ client_health' = HealthCheck(World, outcomes).client_health
         /\ connectivity' = Some([handler |-> "health_check", outcomes |-> outcomes,
                                  attempted |-> Cardinality(clients)])
    /\ pc' = "checked"
    /\ UNCHANGED <<clients, calls, threshold_percentage, instances, quota_idx,
                   instance_idx, monitoring_results, history, alert_results, published,
                   topic_arn, locals, page_in, page_out, storage_engine, s3_objects,
                   dynamodb_items, stores, now, initialization_errors,
                   cached_instances, cache_timestamp, dataset, task_results, account_id>>

InitRegistry ==
    /\ clients = {}
    /\ client_health = [x \in SUPPORTED_SERVICES |-> FALSE]
    /\ calls = <<>>
    /\ pc = "construct"
    /\ threshold_percentage = None
    /\ instances = <<>>
    /\ quota_idx = 1
    /\ instance_idx = 1
    /\ monitoring_results = EmptyMonitoringResults
    /\ history = <<>>
    /\ alert_results = EmptyAlertResults
    /\ published = <<>>
    /\ topic_arn = None
    /\ locals = NoLocals
    /\ page_in = None
    /\ page_out = None
    /\ StorageIdle

NextRegistry ==
    \/ Construct
    \/ CheckHealth

\* the construction of the client registry, then health checks
SpecRegistry == InitRegistry /\ [][NextRegistry]_vars

\* ------------------------------------------------------------ one remote call

\* everything one attempt of a remote call may do
CallOutcomes ==
    {"ok"} \cup ThrottlingCodes \cup ServiceErrorCodes \cup PermissionCodes
           \cup ValidationCodes \cup OtherCodes \cup ConnectionErrors
           \cup UnexpectedErrors

\* what the remote side does on each attempt the call may make
CallScripts == [1..max_retries -> CallOutcomes]

\* the caller of call_service_api once it returned r
Called(service_name, script, r) ==
    /\ history' = Append(history,
                         [service |-> service_name, script |-> script, ok |-> r.ok,
                          calls |-> r.w.calls,
                          available |-> GetClient(World, service_name),
                          health_after |-> r.w.client_health[service_name]])
    /\ clients' = r.w.clients
    /\ client_health' = r.w.client_health
    /\ calls' = r.w.calls

\* one call_service_api invocation
Call ==
    /\ pc = "call"
    /\ \E service_name \in {"connect", "wisdom"}, script \in CallScripts :
         Called(service_name, script,
                CallServiceApi(World, service_name, "list_instances", None, None, script))
    /\ pc' = "called"
    /\ UNCHANGED <<threshold_percentage, instances, quota_idx, instance_idx,
                   monitoring_results, alert_results, published, topic_arn, locals,
                   page_in, page_out>>
    /\ UNCHANGED storageVars

InitCall ==
    /\ \E reg \in RegistryStates :
         /\ clients = reg.clients
         /\ client_health = reg.client_health
    /\ calls = <<>>
    /\ pc = "call"
    /\ threshold_percentage = None
    /\ instances = <<>>
    /\ quota_idx = 1
    /\ instance_idx = 1
    /\ monitoring_results = EmptyMonitoringResults
    /\ history = <<>>
    /\ alert_results = EmptyAlertResults
    /\ published = <<>>
    /\ topic_arn = None
    /\ locals = NoLocals
    /\ page_in = None
    /\ page_out = None
    /\ StorageIdle

NextCall == Call

\* one remote call against every sequence of outcomes
SpecCall == InitCall /\ [][NextCall]_vars

\* ------------------------------------------------ discoveries and the cache

\* instance summaries as list_instances returns them
ListedInstance(id, status) == [Id |-> id, InstanceStatus |-> status]

\* the pages list_instances may serve
ListedPages ==
    { << <<>> >>,
      << <<ListedInstance("i-1", "ACTIVE")>> >>,
      << <<ListedInstance("i-1", "ACTIVE")>>, <<ListedInstance("i-2", "INACTIVE")>> >> }

\* a listing: its pages, and the page (0: none) whose call goes as fail_script
\* says
DiscoveryEnvs ==
    { [pages |-> p, fail_at |-> 0, fail_script |-> OkScript] : p \in ListedPages }
    \cup { [pages |-> p, fail_at |-> f, fail_script |-> ThrottledScript] :
             p \in ListedPages \ { << <<>> >> }, f \in 1..2 }
    \cup { [pages |-> p, fail_at |-> 1, fail_script |-> ThrottledOnceScript] :
             p \in ListedPages \ { << <<>> >> } }

\* the time that passes before a call, in ticks: an instant, or the TTL give
\* or take an instant
Elapses ==
    { 1, CACHE_TTL_SECONDS * TicksPerSecond - 1, CACHE_TTL_SECONDS * TicksPerSecond }

\* the cache as the monitor holds it
Cache == [instances |-> cached_instances, timestamp |-> cache_timestamp]

\* the caller of get_connect_instances once it returned r
InstancesReturned(force_refresh, env, clock, r) ==
    /\ cached_instances' = r.cache.instances
    /\ cache_timestamp' = r.cache.timestamp
    /\ clients' = r.w.clients
    /\ client_health' = r.w.client_health
    /\ calls' = r.w.calls
    /\ now' = clock
    /\ history' = Append(history,
                         [force_refresh |-> force_refresh, env |-> env, clock |-> clock,
                          cache_before |-> Cache, returned |-> r.val,
                          cache_after |-> r.cache, calls |-> r.w.calls])

\* one get_connect_instances call, some time after the previous one
GetInstances ==
    /\ pc = "discover"
    /\ Len(history) < MaxDiscoveries
    /\ \E elapsed \in Elapses, force_refresh \in BOOLEAN, env \in DiscoveryEnvs :
         InstancesReturned(force_refresh, env, now + elapsed,
                           GetConnectInstances(World, Cache, force_refresh, env,
                                               now + elapsed))
    /\ UNCHANGED <<pc, threshold_percentage, instances, quota_idx, instance_idx,
                   monitoring_results, alert_results, published, topic_arn, locals,
                   page_in, page_out, storage_engine, s3_objects, dynamodb_items,
                   stores, initialization_errors, connectivity, dataset,
                   task_results, account_id>>

InitCache ==
    /\ clients = HealthyRegistry.clients
    /\ client_health = HealthyRegistry.client_health
    /\ calls = <<>>
    /\ pc = "discover"
    /\ threshold_percentage = None
    /\ instances = <<>>
    /\ quota_idx = 1
    /\ instance_idx = 1
    /\ monitoring_results = EmptyMonitoringResults
    /\ history = <<>>
    /\ alert_results = EmptyAlertResults
    /\ published = <<>>
    /\ topic_arn = None
    /\ locals = NoLocals
    /\ page_in = None
    /\ page_out = None
    /\ StorageIdle

NextCache == GetInstances

\* get_connect_instances calls on one monitor while time passes
SpecCache == InitCache /\ [][NextCache]_vars

\* ------------------------------------------------------- the parallel path

\* the instances of a cycle that takes the parallel path (more than one)
ParallelInstances == SubSeq(AllInstances, 1, 2)

\* the tasks of the parallel path: an instance and one of its quotas
Tasks == (1..Len(ParallelInstances)) \X (1..Len(GetInstanceLevelQuotas))

\* what the remote side may answer to the calls of one task: as in a
\* sequential cycle, or a listing of connect whose first call loses the
\* connection for good
ParallelEnvs(q) ==
    IF q.method = "api_count" /\ q.service = "connect"
    THEN CycleEnvs(q)
         \cup { [BaseEnv EXCEPT !.listing = [OkListing(1, 1) EXCEPT
                                               !.fail_at = 1,
                                               !.fail_script = DisconnectedScript]] }
    ELSE CycleEnvs(q)

\* the fixed datasets of a run: per instance the answer to the permission
\* check, per task the answers to its calls
Datasets ==
    { [perm |-> p, env |-> e] :
        p \in [1..Len(ParallelInstances) -> {OkScript, DeniedScript}],
        e \in { f \in [Tasks -> UNION { ParallelEnvs(GetInstanceLevelQuotas[j]) :
                                        j \in 1..Len(GetInstanceLevelQuotas) }] :
                  \A t \in Tasks : f[t] \in ParallelEnvs(GetInstanceLevelQuotas[t[2]]) } }

\* a dataset in which no call loses the connection
ConnectionKept(data) ==
    \A t \in Tasks : data.env[t].listing.fail_script /= DisconnectedScript

\* nothing has run yet
NoTaskResults ==
    [validated |-> [i \in 1..Len(ParallelInstances) |-> "pending"],
     done |-> [t \in Tasks |-> FALSE],
     result |-> [t \in Tasks |-> None]]

\* the worker of an instance or of a task changed the registry
RegistryAfter(w) ==
    /\ clients' = w.clients
    /\ client_health' = w.client_health
    /\ calls' = w.calls

\* monitor_single_instance once validate_instance_permissions returned v
InstanceValidated(i, v) ==
    /\ task_results' = Some([Val(task_results) EXCEPT
                               !.validated[i] = IF v.ok THEN "ok" ELSE "denied"])
    /\ RegistryAfter(v.w)

\* monitor_single_instance, the permission check, run by some worker
ValidateInstance ==
    /\ pc = "parallel"
    /\ \E i \in 1..Len(ParallelInstances) :
         /\ Val(task_results).validated[i] = "pending"
         /\ InstanceValidated(i, ValidateInstancePermissions(World, ParallelInstances[i],
                                                             Val(dataset).perm[i]))
    /\ UNCHANGED <<pc, threshold_percentage, instances, quota_idx, instance_idx,
                   monitoring_results, history, alert_results, published, topic_arn,
                   locals, page_in, page_out, storage_engine, s3_objects,
                   dynamodb_items, stores, now, initialization_errors, connectivity,
                   cached_instances, cache_timestamp, dataset, account_id>>

\* a quota task once get_quota_utilization returned r
QuotaResolved(t, r) ==
    /\ task_results' = Some([Val(task_results) EXCEPT
                               !.done[t] = TRUE, !.result[t] = r.result])
    /\ RegistryAfter(r.w)

\* one quota task of a validated instance, run by some worker
ResolveQuota ==
    /\ pc = "parallel"
    /\ \E t \in Tasks :
         /\ Val(task_results).validated[t[1]] = "ok"
         /\ ~ Val(task_results).done[t]
         /\ QuotaResolved(t, GetQuotaUtilization(World, Some(ParallelInstances[t[1]]),
                                                 GetInstanceLevelQuotas[t[2]],
                                                 Some(GetInstanceLevelQuotas[t[2]].code),
                                                 Val(dataset).env[t]))
    /\ UNCHANGED <<pc, threshold_percentage, instances, quota_idx, instance_idx,
                   monitoring_results, history, alert_results, published, topic_arn,
                   locals, page_in, page_out, storage_engine, s3_objects,
                   dynamodb_items, stores, now, initialization_errors, connectivity,
                   cached_instances, cache_timestamp, dataset, account_id>>

RECURSIVE CollectQuotaResults(_, _, _, _)
\* monitor_single_instance, the loop over quota_results: the results that are
\* not None, in the order of the quotas, and the violations among them
CollectQuotaResults(tr, i, j, l) ==
    IF j > Len(GetInstanceLevelQuotas) THEN l
    ELSE CollectQuotaResults(tr, i, j + 1,
                             AddInstanceResult(l, tr.result[<<i, j>>],
                                               MonitoringThreshold(threshold_percentage)))

\* what monitor_single_instance returns for instance number i
MonitorSingleInstance(tr, i) ==
    IF tr.validated[i] = "denied"
    THEN [instance_id |-> ParallelInstances[i], error |-> TRUE, quotas_checked |-> 0,
          violations |-> 0, results |-> <<>>]
    ELSE [instance_id |-> ParallelInstances[i], error |-> FALSE,
          quotas_checked |-> Len(CollectQuotaResults(tr, i, 1, NoLocals).instance_results),
          violations |-> CollectQuotaResults(tr, i, 1, NoLocals).instance_violations,
          results |-> CollectQuotaResults(tr, i, 1, NoLocals).instance_results]

\* an aggregation that keeps the counts and loses the results
AggregateInstanceResultCounting(mr, instance_result) ==
    [mr EXCEPT
       !.instance_results =
           Append(@, [instance_id |-> instance_result.instance_id,
                      quotas_checked |-> instance_result.quotas_checked,
                      violations |-> instance_result.violations,
                      results |-> <<>>]),
       !.instances_monitored = @ + 1,
       !.total_quotas_checked = @ + instance_result.quotas_checked,
       !.violations_found = @ + instance_result.violations]

\* "Aggregate results": what one monitor_single_instance result does to the
\* summary
AggregateInstanceResult(mr, instance_result) ==
    [mr EXCEPT
       !.instance_results =
           Append(@, [instance_id |-> instance_result.instance_id,
                      quotas_checked |-> instance_result.quotas_checked,
                      violations |-> instance_result.violations,
                      results |-> instance_result.results]),
       !.instances_monitored = @ + 1,
       !.total_quotas_checked = @ + instance_result.quotas_checked,
       !.violations_found = @ + instance_result.violations,
       !.errors = IF instance_result.error
                  THEN Append(@, [kind |-> "permissions",
                                  instance_id |-> Some(instance_result.instance_id),
                                  quota_code |-> None])
                  ELSE @]

RECURSIVE AggregateFrom(_, _, _)
\* the loop over instance_results_list, which holds the instances' results in
\* the order of the instances
AggregateFrom(mr, tr, i) ==
    IF i > Len(ParallelInstances) THEN mr
    ELSE AggregateFrom(AggregateInstanceResult(mr, MonitorSingleInstance(tr, i)), tr, i + 1)

\* every instance was refused or has all its quota tasks done
AllTasksDone(tr) ==
    \A i \in 1..Len(ParallelInstances) :
        \/ tr.validated[i] = "denied"
        \/ /\ tr.validated[i] = "ok"
           /\ \A j \in 1..Len(GetInstanceLevelQuotas) : tr.done[<<i, j>>]

\* monitor_all_instances_dynamically, parallel path: the aggregation once the
\* workers are through
AggregateResults ==
    /\ pc = "parallel"
    /\ AllTasksDone(Val(task_results))
    /\ monitoring_results' = AggregateFrom(monitoring_results, Val(task_results), 1)
    /\ pc' = "done"
    /\ UNCHANGED <<clients, client_health, calls, threshold_percentage, instances,
                   quota_idx, instance_idx, history, alert_results, published,
                   topic_arn, locals, page_in, page_out, storage_engine, s3_objects,
                   dynamodb_items, stores, now, initialization_errors, connectivity,
                   cached_instances, cache_timestamp, dataset, task_results, account_id>>

RECURSIVE SequentialFrom(_, _, _, _, _)
RECURSIVE SequentialValidated(_, _, _, _)
RECURSIVE SequentialResolved(_, _, _, _, _)
\* monitor_all_instances_dynamically, sequential path, on a dataset: the loop
\* over the instances (j = 0: the permission check of instance number i, else
\* quota number j of it); acc is the set of results so far
SequentialFrom(w, data, i, j, acc) ==
    IF i > Len(ParallelInstances) THEN acc
    ELSE IF j = 0
    THEN SequentialValidated(ValidateInstancePermissions(w, ParallelInstances[i],
                                                         data.perm[i]),
                             data, i, acc)
    ELSE SequentialResolved(GetQuotaUtilization(w, Some(ParallelInstances[i]),
                                                GetInstanceLevelQuotas[j],
                                                Some(GetInstanceLevelQuotas[j].code),
                                                data.env[<<i, j>>]),
                            data, i, j, acc)

\* the sequential path after the permission check: on with the quotas, or
\* with the next instance
SequentialValidated(v, data, i, acc) ==
    IF v.ok
    THEN SequentialFrom(v.w, data, i, 1, acc)
    ELSE SequentialFrom(v.w, data, i + 1, 0, acc)

\* the sequential path after a quota: on with the next quota, or instance
SequentialResolved(r, data, i, j, acc) ==
    SequentialFrom(r.w, data,
                   IF j = Len(GetInstanceLevelQuotas) THEN i + 1 ELSE i,
                   IF j = Len(GetInstanceLevelQuotas) THEN 0 ELSE j + 1,
                   IF r.result = None THEN acc ELSE acc \cup {Val(r.result)})

\* the sequential path's results on the dataset and registry a run started with
SequentialResults(data) ==
    SequentialFrom([clients |-> data.registry.clients,
                    client_health |-> data.registry.client_health, calls |-> <<>>],
                   data, 1, 0, {})

\* the results a summary holds for its instances, as a set
InstanceResultSet(mr) ==
    UNION { { mr.instance_results[k].results[n] :
                n \in 1..Len(mr.instance_results[k].results) } :
            k \in 1..Len(mr.instance_results) }

RECURSIVE SequentialSummaryFrom(_, _, _, _, _, _)
RECURSIVE SummaryValidated(_, _, _, _)
RECURSIVE SummaryResolved(_, _, _, _, _, _)
\* monitor_all_instances_dynamically, sequential path, on a dataset: the
\* summary the loop over the instances builds (j = 0: the permission check of
\* instance number i, else quota number j of it; l: the instance's locals)
SequentialSummaryFrom(w, data, i, j, mr, l) ==
    IF i > Len(ParallelInstances) THEN mr
    ELSE IF j = 0
    THEN SummaryValidated(ValidateInstancePermissions(w, ParallelInstances[i],
                                                      data.perm[i]),
                          data, i, mr)
    ELSE SummaryResolved(GetQuotaUtilization(w, Some(ParallelInstances[i]),
                                             GetInstanceLevelQuotas[j],
                                             Some(GetInstanceLevelQuotas[j].code),
                                             data.env[<<i, j>>]),
                         data, i, j, mr, l)

\* the sequential path after the permission check: on with the quotas, or an
\* error and on with the next instance
SummaryValidated(v, data, i, mr) ==
    IF v.ok
    THEN SequentialSummaryFrom(v.w, data, i, 1, mr, NoLocals)
    ELSE SequentialSummaryFrom(v.w, data, i + 1, 0,
                               [mr EXCEPT
                                  !.errors = Append(@, [kind |-> "permissions",
                                                        instance_id |-> Some(ParallelInstances[i]),
                                                        quota_code |-> None])],
                               NoLocals)

\* the sequential path after a quota: on with the next quota, or the
\* instance's entry and on with the next instance
SummaryResolved(r, data, i, j, mr, l) ==
    IF j = Len(GetInstanceLevelQuotas)
    THEN SequentialSummaryFrom(
             r.w, data, i + 1, 0,
             AddInstanceEntry(
                 CountInstanceResult(mr, r.result, MonitoringThreshold(threshold_percentage)),
                 ParallelInstances[i],
                 AddInstanceResult(l, r.result, MonitoringThreshold(threshold_percentage))),
             NoLocals)
    ELSE SequentialSummaryFrom(
             r.w, data, i, j + 1,
             CountInstanceResult(mr, r.result, MonitoringThreshold(threshold_percentage)),
             AddInstanceResult(l, r.result, MonitoringThreshold(threshold_percentage)))

\* the sequential path's summary on the dataset and registry a run started with
SequentialSummary(data) ==
    SequentialSummaryFrom([clients |-> data.registry.clients,
                           client_health |-> data.registry.client_health,
                           calls |-> <<>>],
                          data, 1, 0, EmptyMonitoringResults, NoLocals)

\* what the two paths are compared on: the count of monitored instances, the
\* instances that have an entry, and the errors
InstanceSummary(mr) ==
    [instances_monitored |-> mr.instances_monitored,
     entries |-> { mr.instance_results[k].instance_id :
                     k \in 1..Len(mr.instance_results) },
     errors |-> mr.errors]

InitParallel ==
    /\ \E reg \in RegistryStates, d \in Datasets :
         /\ clients = reg.clients
         /\ client_health = reg.client_health
         /\ dataset = Some([perm |-> d.perm, env |-> d.env, registry |-> reg])
    /\ calls = <<>>
    /\ pc = "parallel"
    /\ threshold_percentage = None
    /\ instances = ParallelInstances
    /\ quota_idx = 1
    /\ instance_idx = 1
    /\ monitoring_results = EmptyMonitoringResults
    /\ history = <<>>
    /\ alert_results = EmptyAlertResults
    /\ published = <<>>
    /\ topic_arn = None
    /\ locals = NoLocals
    /\ page_in = None
    /\ page_out = None
    /\ storage_engine = [use_s3 |-> FALSE, use_dynamodb |-> FALSE]
    /\ s3_objects = <<>>
    /\ dynamodb_items = <<>>
    /\ stores = <<>>
    /\ now = 0
    /\ initialization_errors = {}
    /\ connectivity = None
    /\ cached_instances = None
    /\ cache_timestamp = None
    /\ task_results = Some(NoTaskResults)
    /\ account_id = None

NextParallel ==
    \/ ValidateInstance
    \/ ResolveQuota
    \/ AggregateResults

\* the instance stage of one cycle on the parallel path, the workers taking
\* the instances and their quotas in any order
SpecParallel == InitParallel /\ [][NextParallel]_vars

\* ------------------------------------------ the measurement of one quota

\* ENHANCED_CONNECT_QUOTA_METRICS['L-5243FFAF']: the user hierarchy
HierarchyQuota ==
    QuotaConfig("L-5243FFAF", "INSTANCE", "api_count", "connect",
                Some("describe_user_hierarchy_structure"), None, None, None, None,
                "Maximum", 5)

\* ENHANCED_CONNECT_QUOTA_METRICS['L-E8F843D1']: a metric with statistic Sum
SumQuota ==
    QuotaConfig("L-E8F843D1", "ACCOUNT", "cloudwatch", "connect",
                None, None, None, None, Some("RealTimeAnalysisSegmentsPerInterval"),
                "Sum", 100)

\* ENHANCED_CONNECT_QUOTA_METRICS['L-L7M8N9O0']: an API rate, with the
\* operation the method cloudwatch_api reads
RateQuota ==
    [code |-> "L-L7M8N9O0", scope |-> "INSTANCE", method |-> "cloudwatch_api",
     service |-> "connect", api |-> None, parent_service |-> None, parent_api |-> None,
     parent_key |-> None, metric_name |-> None, statistic |-> "Sum",
     default_limit |-> 2, operation |-> Some("AssociateApprovedOrigin")]

\* quota configurations whose method is none of the five that
\* _process_quota_config knows, one per scope
UnknownMethodQuota(scope) ==
    QuotaConfig("L-UNKNOWN", scope, "manual", "connect",
                Some("list_users"), None, None, None, Some("ConcurrentCalls"),
                "Maximum", 10)

\* the quotas whose measurement is looked at: the lookup of limits, the
\* metrics with statistics Maximum and Sum, the API rate, the hierarchy and
\* the unknown methods
MeasuredQuotas ==
    << ENHANCED_CONNECT_QUOTA_METRICS[2], ENHANCED_CONNECT_QUOTA_METRICS[4],
       SumQuota, RateQuota, HierarchyQuota,
       UnknownMethodQuota("ACCOUNT"), UnknownMethodQuota("INSTANCE") >>

\* the series get_metric_statistics may return: the value of the requested
\* statistic per period, in any order of time
Series ==
    { <<>>,
      << [Timestamp |-> 1, value |-> 3] >>,
      << [Timestamp |-> 1, value |-> 3], [Timestamp |-> 2, value |-> 10] >>,
      << [Timestamp |-> 2, value |-> 3], [Timestamp |-> 1, value |-> 10] >>,
      << [Timestamp |-> 1, value |-> 600], [Timestamp |-> 2, value |-> 300],
         [Timestamp |-> 3, value |-> 0] >> }

\* the hierarchy structures describe_user_hierarchy_structure may return:
\* none, or one with some of its levels named
Hierarchies ==
    { [script |-> sc, present |-> p, named |-> n] :
        sc \in {OkScript, ThrottledScript},
        p \in BOOLEAN,
        n \in { {}, {1}, {1, 2, 3}, HierarchyLevels } }

\* what the remote side may answer to the calls of one measurement
MeasureEnvs(q) ==
    IF q.method = "api_count"
    THEN { [BaseEnv EXCEPT !.hierarchy = h] : h \in Hierarchies }
    ELSE IF q.method \in {"cloudwatch", "cloudwatch_api", "manual"}
    THEN { [BaseEnv EXCEPT !.metric = [script |-> sc, Datapoints |-> dp]] :
             sc \in {OkScript, ThrottledScript, DeniedScript}, dp \in Series }
    ELSE ResolveEnvs(q)

\* what is remembered of one measurement: the quota, the context, what the
\* remote side answered, what the method handed back to _process_quota_config
\* (known: the method is one of the five), the result and the remote calls
MeasureEntry(q, instance_id, env, d, r) ==
    [quota_code |-> q.code, method |-> q.method, scope |-> q.scope,
     statistic |-> q.statistic, default_limit |-> q.default_limit,
     instance_id |-> instance_id, env |-> env,
     known |-> d.known, val |-> d.val, limit |-> d.limit,
     result |-> r.result, calls |-> r.w.calls]

\* get_quota_utilization once it returned r, its method having handed back d
MeasureDone(q, instance_id, env, d, r) ==
    /\ history' = << MeasureEntry(q, instance_id, env, d, r) >>
    /\ clients' = r.w.clients
    /\ client_health' = r.w.client_health
    /\ calls' = r.w.calls
    /\ pc' = "measured"

\* get_quota_utilization for one of the quotas above, in the context its
\* scope asks for, whatever the remote side answers
Measure ==
    /\ pc = "measure"
    /\ \E i \in 1..Len(MeasuredQuotas) :
         \E env \in MeasureEnvs(MeasuredQuotas[i]) :
           MeasureDone(MeasuredQuotas[i],
                       IF MeasuredQuotas[i].scope = "INSTANCE"
                       THEN Some(AllInstances[1]) ELSE None,
                       env,
                       DispatchMethod(World,
                                      IF MeasuredQuotas[i].scope = "INSTANCE"
                                      THEN Some(AllInstances[1]) ELSE None,
                                      MeasuredQuotas[i], Some(MeasuredQuotas[i].code), env),
                       GetQuotaUtilization(World,
                                           IF MeasuredQuotas[i].scope = "INSTANCE"
                                           THEN Some(AllInstances[1]) ELSE None,
                                           MeasuredQuotas[i], Some(MeasuredQuotas[i].code),
                                           env))
    /\ UNCHANGED <<threshold_percentage, instances, quota_idx, instance_idx,
                   monitoring_results, alert_results, published, topic_arn, locals,
                   page_in, page_out>>
    /\ UNCHANGED storageVars

InitMeasure ==
    /\ \E reg \in RegistryStates :
         /\ clients = reg.clients
         /\ client_health = reg.client_health
    /\ calls = <<>>
    /\ pc = "measure"
    /\ threshold_percentage = None
    /\ instances = <<>>
    /\ quota_idx = 1
    /\ instance_idx = 1
    /\ monitoring_results = EmptyMonitoringResults
    /\ history = <<>>
    /\ alert_results = EmptyAlertResults
    /\ published = <<>>
    /\ topic_arn = None
    /\ locals = NoLocals
    /\ page_in = None
    /\ page_out = None
    /\ StorageIdle

NextMeasure == Measure

\* one measurement
SpecMeasure == InitMeasure /\ [][NextMeasure]_vars

\* ------------------------------------ reconnection of a constructed registry

\* a service name that SUPPORTED_SERVICES does not declare
UNDECLARED_SERVICE == "lambda"

\* what a reconnected service does when its handle is created and tested
ReconnectOutcomes(service_name) ==
    IF service_name \in RequiredServices
    THEN {"no_client"} \cup ConnectivityOutcomes
    ELSE {"no_client", "ok"}

\* what the no-op calls do during a health check of a reconnected registry:
\* at most one required service does not answer
SingleFaultOutcomes ==
    { f \in HealthCheckOutcomes :
        \A s, t \in RequiredServices : (f[s] /= "ok" /\ f[t] /= "ok") => s = t }

\* reconnect_client once it returned
Reconnected(service_name, outcome, r) ==
    /\ clients' = r.w.clients
    /\ client_health' = r.w.client_health
    /\ connectivity' = Some([handler |-> "reconnect_client",
                             service_name |-> service_name,
                             outcome |-> outcome,
                             returned |-> r.ok,
                             clients_before |-> clients,
                             client_health_before |-> client_health])
    /\ pc' = "reconnected"

\* MultiServiceClientManager.reconnect_client on a constructed registry
Reconnect ==
    /\ pc \in {"constructed", "reconnected", "rechecked"}
    /\ \E service_name \in SUPPORTED_SERVICES \cup {UNDECLARED_SERVICE} :
         \E outcome \in ReconnectOutcomes(service_name) :
           Reconnected(service_name, outcome,
                       ReconnectClientResult(World, service_name,
                           /\ service_name \in SUPPORTED_SERVICES
                           /\ ClientInitialized(service_name, outcome)))
    /\ UNCHANGED <<calls, threshold_percentage, instances, quota_idx,
                   instance_idx, monitoring_results, history, alert_results, published,
                   topic_arn, locals, page_in, page_out, storage_engine, s3_objects,
                   dynamodb_items, stores, now, initialization_errors,
                   cached_instances, cache_timestamp, dataset, task_results, account_id>>

\* MultiServiceClientManager.health_check on a registry that may have been
\* reconnected
RecheckHealth ==
    /\ pc \in {"constructed", "reconnected", "rechecked"}
    /\ \E outcomes \in SingleFaultOutcomes :
         /\ client_health' = HealthCheck(World, outcomes).client_health
         /\ connectivity' = Some([handler |-> "health_check", outcomes |-> outcomes,
                                  attempted |-> Cardinality(clients)])
    /\ pc' = "rechecked"
    /\ UNCHANGED <<clients, calls, threshold_percentage, instances, quota_idx,
                   instance_idx, monitoring_results, history, alert_results, published,
                   topic_arn, locals, page_in, page_out, storage_engine, s3_objects,
                   dynamodb_items, stores, now, initialization_errors,
                   cached_instances, cache_timestamp, dataset, task_results, account_id>>

NextReconnect ==
    \/ Construct
    \/ Reconnect
    \/ RecheckHealth

\* construction, then reconnections and health checks in any order
SpecReconnect == InitRegistry /\ [][NextReconnect]_vars

\* ------------------------------------- the account id of discovered instances

\* the account of the caller, which is the account in the ARN of every listed
\* instance
AWS_ACCOUNT == "111122223333"

\* the registry of a monitor whose optional sts service has a handle or not
StsRegistry(has_sts) ==
    [clients |-> IF has_sts THEN SUPPORTED_SERVICES \cup {"sts"} ELSE SUPPORTED_SERVICES,
     client_health |-> [x \in SUPPORTED_SERVICES \cup {"sts"} |-> TRUE]]

\* one page of instances, whose call is denied or not
AccountListings ==
    { [pages |-> << p >>, fail_at |-> f, fail_script |-> DeniedScript] :
        p \in { <<>>,
                <<ListedInstance("i-1", "ACTIVE")>>,
                <<ListedInstance("i-1", "ACTIVE"), ListedInstance("i-2", "INACTIVE")>> },
        f \in 0..1 }

\* what the remote side answers during one get_connect_instances call: to the
\* listing of the call itself, to the listings of the calls nested in it, and
\* to get_caller_identity
AccountEnvs ==
    [outer : AccountListings, nested : AccountListings, sts_ok : BOOLEAN]

\* the listing a get_connect_instances call at the given depth meets
LevelEnv(envs, depth) == IF depth = 1 THEN envs.outer ELSE envs.nested

\* _enhance_instance_metadata with the AccountId field
EnhanceWithAccount(instance, account, clock) ==
    [Id |-> instance.Id, IsActive |-> instance.InstanceStatus = "ACTIVE",
     DiscoveredAt |-> clock, AccountId |-> account]

\* the get_caller_identity call of _get_account_id, as calls records it
CallerIdentityCall(sts_ok) ==
    [service |-> "sts", api |-> "get_caller_identity", param |-> None, token |-> None,
     attempt |-> 1, outcome |-> IF sts_ok THEN "ok" ELSE "Exception", backoff |-> 0]

\* _get_account_id once the nested get_connect_instances returned r: the
\* account of the first instance's ARN, 'unknown' without instances
AccountIdFromInstances(r) ==
    [val |-> IF r.val /= <<>> THEN AWS_ACCOUNT ELSE "unknown",
     s |-> [r.s EXCEPT !.account_id =
                Some(IF r.val /= <<>> THEN AWS_ACCOUNT ELSE "unknown")]]

RECURSIVE GetAccountId(_, _, _, _)
RECURSIVE EnhanceInstancesAt(_, _, _, _, _, _, _)
RECURSIVE DiscoverInstancesBasicAt(_, _, _, _)
RECURSIVE GetConnectInstancesAt(_, _, _, _, _)

\* _enhance_instance_metadata once _get_account_id returned a
EnhanceNextAt(a, listed, i, acc, envs, clock, depth) ==
    EnhanceInstancesAt(a.s, listed, i + 1,
                       Append(acc, EnhanceWithAccount(listed[i], a.val, clock)),
                       envs, clock, depth)

\* the "basic instance processing" loop of _discover_instances_basic from the
\* i-th listed instance on
EnhanceInstancesAt(s, listed, i, acc, envs, clock, depth) ==
    IF i > Len(listed) THEN [val |-> acc, s |-> s]
    ELSE EnhanceNextAt(GetAccountId(s, envs, clock, depth),
                       listed, i, acc, envs, clock, depth)

\* _discover_instances_basic after the enhancement e: the list is cached
CacheResultsAt(e, clock) ==
    [val |-> e.val,
     s |-> [e.s EXCEPT !.cache = [instances |-> Some(e.val),
                                  timestamp |-> Some(clock)]]]

\* _discover_instances_basic once the pagination returned d
PagesListedAt(d, s, envs, clock, depth) ==
    CacheResultsAt(EnhanceInstancesAt([s EXCEPT !.w = d.w], d.val, 1, <<>>,
                                      envs, clock, depth),
                   clock)

\* _discover_instances_basic once the first list_instances call returned r
FirstPageListedAt(r, s, envs, clock, depth) ==
    IF ~ r.ok
    THEN [val |-> GetFallbackInstances(s.cache), s |-> [s EXCEPT !.w = r.w]]
    ELSE PagesListedAt(DiscoverPagesFrom(r.w, LevelEnv(envs, depth),
                                         LevelEnv(envs, depth).pages[1], 2, 1),
                       s, envs, clock, depth)

\* _discover_instances_basic of the get_connect_instances call at the given
\* depth of nesting
DiscoverInstancesBasicAt(s, envs, clock, depth) ==
    FirstPageListedAt(CallServiceApi(s.w, "connect", "list_instances", None, None,
                                     DiscoveryScript(LevelEnv(envs, depth), 1)),
                      s, envs, clock, depth)

\* get_connect_instances at the given depth of nesting (1: the caller's);
\* nesting is the deepest call so far (ghost)
GetConnectInstancesAt(s, force_refresh, envs, clock, depth) ==
    IF /\ ~ force_refresh
       /\ s.cache.instances /= None
       /\ s.cache.timestamp /= None
       /\ clock - Val(s.cache.timestamp) < CACHE_TTL_SECONDS * TicksPerSecond
    THEN [val |-> Val(s.cache.instances),
          s |-> [s EXCEPT !.nesting = IF depth > @ THEN depth ELSE @]]
    ELSE DiscoverInstancesBasicAt([s EXCEPT !.nesting = IF depth > @ THEN depth ELSE @],
                                  envs, clock, depth)

\* _get_account_id called by the get_connect_instances call at the given
\* depth. Without an sts handle it asks get_connect_instances for the
\* instances; the call that would exceed the interpreter's limit raises
\* RecursionError, which the except clause turns into 'unknown' (overflowed
\* is a ghost that records it).
GetAccountId(s, envs, clock, depth) ==
    IF s.account_id /= None THEN [val |-> Val(s.account_id), s |-> s]
    ELSE IF GetClient(s.w, "sts")
    THEN [val |-> IF envs.sts_ok THEN AWS_ACCOUNT ELSE "unknown",
          s |-> [s EXCEPT !.account_id = IF envs.sts_ok THEN Some(AWS_ACCOUNT) ELSE @,
                          !.w.calls = Append(@, CallerIdentityCall(envs.sts_ok))]]
    ELSE IF ~ (depth < MaxNesting)
    THEN [val |-> "unknown", s |-> [s EXCEPT !.overflowed = TRUE]]
    ELSE AccountIdFromInstances(GetConnectInstancesAt(s, FALSE, envs, clock, depth + 1))

\* the caller of get_connect_instances once it returned r
AccountDiscovered(force_refresh, envs, clock, r) ==
    /\ cached_instances' = r.s.cache.instances
    /\ cache_timestamp' = r.s.cache.timestamp
    /\ account_id' = r.s.account_id
    /\ clients' = r.s.w.clients
    /\ client_health' = r.s.w.client_health
    /\ calls' = r.s.w.calls
    /\ now' = clock
    /\ history' = Append(history,
                         [force_refresh |-> force_refresh, envs |-> envs,
                          clock |-> clock, cache_before |-> Cache,
                          account_id_before |-> account_id,
                          has_sts |-> GetClient(World, "sts"),
                          returned |-> r.val, nesting |-> r.s.nesting,
                          overflowed |-> r.s.overflowed, calls |-> r.s.w.calls])

\* one get_connect_instances call on a monitor that resolves the account id
\* of the instances it discovers
DiscoverWithAccount ==
    /\ pc = "account"
    /\ Len(history) < MaxDiscoveries
    /\ \E elapsed \in {1, CACHE_TTL_SECONDS * TicksPerSecond},
          force_refresh \in BOOLEAN, envs \in AccountEnvs :
         AccountDiscovered(force_refresh, envs, now + elapsed,
                           GetConnectInstancesAt(
                               [w |-> World, cache |-> Cache, account_id |-> account_id,
                                nesting |-> 0, overflowed |-> FALSE],
                               force_refresh, envs, now + elapsed, 1))
    /\ UNCHANGED <<pc, threshold_percentage, instances, quota_idx, instance_idx,
                   monitoring_results, alert_results, published, topic_arn, locals,
                   page_in, page_out, storage_engine, s3_objects, dynamodb_items,
                   stores, initialization_errors, connectivity, dataset,
                   task_results>>

InitAccount ==
    /\ \E has_sts \in BOOLEAN :
         /\ clients = StsRegistry(has_sts).clients
         /\ client_health = StsRegistry(has_sts).client_health
    /\ calls = <<>>
    /\ pc = "account"
    /\ threshold_percentage = None
    /\ instances = <<>>
    /\ quota_idx = 1
    /\ instance_idx = 1
    /\ monitoring_results = EmptyMonitoringResults
    /\ history = <<>>
    /\ alert_results = EmptyAlertResults
    /\ published = <<>>
    /\ topic_arn = None
    /\ locals = NoLocals
    /\ page_in = None
    /\ page_out = None
    /\ StorageIdle

NextAccount == DiscoverWithAccount

\* get_connect_instances calls on one monitor, with or without an sts handle
SpecAccount == InitAccount /\ [][NextAccount]_vars

\* ------------------------------------------ the metrics prepared for a store

\* the thresholds a cycle may be configured with
ConfiguredThresholds == 1..99

\* results of a cycle as the storage engine sees them: their category and
\* their utilization, below and at the default threshold and above it
StoredResults ==
    { [quota_code |-> "L-22922690", category |-> c, utilization_percentage |-> u] :
        c \in {"Users", "Routing"}, u \in {5000, 7999, 8000, 9000} }

\* the batches of results of one instance or of the account
MetricBatches ==
    { <<>> } \cup { <<m>> : m \in StoredResults }
             \cup { <<m, n>> : m \in StoredResults, n \in StoredResults }

\* the categories of a batch
CategoriesOf(metrics_data) ==
    { metrics_data[i].category : i \in 1..Len(metrics_data) }

\* FlexibleStorageEngine._create_metrics_summary: the count and the
\* violations (utilization >= 80) of each category, and the highest
\* utilization
CreateMetricsSummary(metrics_data) ==
    IF metrics_data = <<>> THEN None
    ELSE Some([total_metrics |-> Len(metrics_data),
               max_utilization |-> MaxUtilization(metrics_data),
               categories |->
                   [c \in CategoriesOf(metrics_data) |->
                       [count |-> Cardinality({ i \in 1..Len(metrics_data) :
                                                  metrics_data[i].category = c }),
                        violations |->
                            Cardinality({ i \in 1..Len(metrics_data) :
                                            /\ metrics_data[i].category = c
                                            /\ metrics_data[i].utilization_percentage
                                                   >= 8000 })]]])

\* the caller of a _prepare_* function once it returned data
MetricsPrepared(kind, metrics_data, data) ==
    /\ history' = Append(history,
                         [kind |-> kind, metrics_data |-> metrics_data, data |-> data,
                          summary |-> CreateMetricsSummary(metrics_data)])
    /\ pc' = "prepared"

\* _prepare_instance_metrics on the results of the first instance
PrepareInstance ==
    /\ pc = "prepare"
    /\ \E metrics_data \in MetricBatches :
         MetricsPrepared("instance", metrics_data,
                         PrepareInstanceMetrics(AllInstances[1], metrics_data, now, 1))
    /\ UNCHANGED <<clients, client_health, calls, threshold_percentage, instances,
                   quota_idx, instance_idx, monitoring_results, alert_results,
                   published, topic_arn, locals, page_in, page_out>>
    /\ UNCHANGED storageVars

\* _prepare_account_metrics on the results of the account
PrepareAccount ==
    /\ pc = "prepare"
    /\ \E metrics_data \in MetricBatches :
         MetricsPrepared("account", metrics_data,
                         PrepareAccountMetrics(metrics_data, now, 1))
    /\ UNCHANGED <<clients, client_health, calls, threshold_percentage, instances,
                   quota_idx, instance_idx, monitoring_results, alert_results,
                   published, topic_arn, locals, page_in, page_out>>
    /\ UNCHANGED storageVars

InitMetrics ==
    /\ clients = HealthyRegistry.clients
    /\ client_health = HealthyRegistry.client_health
    /\ calls = <<>>
    /\ pc = "prepare"
    /\ threshold_percentage \in { Some(t) : t \in ConfiguredThresholds }
    /\ instances = <<>>
    /\ quota_idx = 1
    /\ instance_idx = 1
    /\ monitoring_results = EmptyMonitoringResults
    /\ history = <<>>
    /\ alert_results = EmptyAlertResults
    /\ published = <<>>
    /\ topic_arn = None
    /\ locals = NoLocals
    /\ page_in = None
    /\ page_out = None
    /\ StorageIdle

NextMetrics ==
    \/ PrepareInstance
    \/ PrepareAccount

\* the metrics of one batch prepared for storage in a cycle with a configured
\* threshold
SpecMetrics == InitMetrics /\ [][NextMetrics]_vars

\* ------------------------------------------------------------- properties

Abs(x) == IF x < 0 THEN -x ELSE x

\* a remote invocation of the log failed: its last attempt was not answered
FailedInvocation(log) ==
    \E k \in 1..Len(log) :
        /\ log[k].outcome /= "ok"
        /\ (k = Len(log) \/ log[k + 1].attempt = 1)

\* the number of call_service_api invocations of the log
Invocations(log) ==
    Cardinality({ k \in 1..Len(log) : log[k].attempt = 1 })

\* C1, as the spec states it: the percentage of every result produced by
\* get_quota_utilization is 0 when the limit is not positive and otherwise
\* exactly current_usage / quota_limit * 100.
C1_ExactPercentage ==
    \A i \in 1..Len(history) :
        history[i].result /= None =>
            IF Val(history[i].result).quota_limit <= 0
            THEN Val(history[i].result).utilization_percentage = 0
            ELSE Val(history[i].result).utilization_percentage
                     * Val(history[i].result).quota_limit
                 = Val(history[i].result).current_usage * 10000

\* C1, amended: the percentage of every result produced by
\* get_quota_utilization is 0 when the limit is not positive and otherwise
\* current_usage / quota_limit * 100 rounded to two decimals (at most half a
\* hundredth away from the exact quotient), computed from the usage and the
\* limit of the same result.
C1_RoundedPercentage ==
    \A i \in 1..Len(history) :
        history[i].result /= None =>
            IF Val(history[i].result).quota_limit <= 0
            THEN Val(history[i].result).utilization_percentage = 0
            ELSE 2 * Abs(Val(history[i].result).utilization_percentage
                             * Val(history[i].result).quota_limit
                         - Val(history[i].result).current_usage * 10000)
                 <= Val(history[i].result).quota_limit

\* a result whose exact percentage has more than two decimals was produced
C1_Witness ==
    \E i \in 1..Len(history) :
        /\ history[i].result /= None
        /\ Val(history[i].result).quota_limit > 0
        /\ (Val(history[i].result).current_usage * 10000)
               % Val(history[i].result).quota_limit /= 0

\* C2: get_quota_utilization for an ACCOUNT quota with an instance context,
\* or for an INSTANCE quota without one, returns no result and makes no
\* remote call.
C2_ScopeFiltering ==
    \A i \in 1..Len(history) :
        (\/ (history[i].scope = "ACCOUNT" /\ history[i].instance_id /= None)
         \/ (history[i].scope = "INSTANCE" /\ history[i].instance_id = None))
        => /\ history[i].result = None
           /\ history[i].calls = <<>>

\* an ACCOUNT quota was resolved with an instance context, and an INSTANCE
\* quota without one could not be: here the first
C2_Witness ==
    \E i \in 1..Len(history) :
        /\ history[i].scope = "ACCOUNT"
        /\ history[i].instance_id /= None
        /\ history[i].available
        /\ history[i].result = None

\* the targets of a batch: the account and every instance id
Targets ==
    {"ACCOUNT"} \cup { instances[i] : i \in 1..Len(instances) }

\* the results of a partition of the batch
PartitionResults(target) ==
    IF target = "ACCOUNT" THEN monitoring_results.account_results
    ELSE IF \E i \in 1..Len(monitoring_results.instance_results) :
                monitoring_results.instance_results[i].instance_id = target
    THEN monitoring_results.instance_results[
             CHOOSE i \in 1..Len(monitoring_results.instance_results) :
                 monitoring_results.instance_results[i].instance_id = target].results
    ELSE <<>>

\* the threshold of the alert engine of the cycle
EngineThreshold ==
    Val(CreateAlertEngine(topic_arn, threshold_percentage)).threshold_percentage

\* the results of a partition at or above the engine's threshold
Violating(target) ==
    SelectSeq(PartitionResults(target),
              LAMBDA r : r.utilization_percentage >= EngineThreshold * 100)

\* the notifications issued for a target
Notifications(target) ==
    SelectSeq(published, LAMBDA m : m.target = target)

\* the alert stage is over and the engine was created with a valid sink
AlertsEvaluated ==
    pc = "done" /\ alert_results.error = ""

\* C3: for any batch and threshold at most one notification is issued per
\* target (the account, each instance id); a target with at least one
\* violating result gets exactly one notification carrying all its violating
\* results, a target without violating results gets none.
C3_OneAlertPerPartition ==
    /\ \A k \in 1..Len(published) : published[k].target \in Targets
    /\ \A t \in Targets : Len(Notifications(t)) <= 1
    /\ AlertsEvaluated =>
         \A t \in Targets :
             IF Violating(t) = <<>>
             THEN Notifications(t) = <<>>
             ELSE /\ Len(Notifications(t)) = 1
                  /\ Notifications(t)[1].violations = Violating(t)
                  /\ Notifications(t)[1].violations_count = Len(Violating(t))

\* two targets got their notification, one of them for several violations
C3_Witness ==
    /\ AlertsEvaluated
    /\ Len(published) >= 2
    /\ \E k \in 1..Len(published) : Len(published[k].violations) >= 2

\* C4: a result of a partition is a member of the partition's notification
\* iff its utilization is at or above the engine's threshold; a result
\* exactly at the threshold is a member.
C4_InclusiveThreshold ==
    AlertsEvaluated =>
        \A t \in Targets :
            \A i \in 1..Len(PartitionResults(t)) :
                (\E k \in 1..Len(published) :
                     /\ published[k].target = t
                     /\ \E j \in 1..Len(published[k].violations) :
                            published[k].violations[j] = PartitionResults(t)[i])
                <=> PartitionResults(t)[i].utilization_percentage >= EngineThreshold * 100

\* a partition with a result exactly at the threshold, notified, and a
\* result below it, left out
C4_Witness ==
    /\ AlertsEvaluated
    /\ \E t \in Targets :
           /\ \E i \in 1..Len(PartitionResults(t)) :
                  PartitionResults(t)[i].utilization_percentage = EngineThreshold * 100
           /\ \E i \in 1..Len(PartitionResults(t)) :
                  PartitionResults(t)[i].utilization_percentage < EngineThreshold * 100
           /\ Len(Notifications(t)) = 1
           /\ Len(Notifications(t)[1].violations) < Len(PartitionResults(t))

\* the severity tier of one utilization: 4 Critical, 3 High, 2 Medium, 1 Low
SeverityRank(utilization) ==
    IF utilization >= 9500 THEN 4
    ELSE IF utilization >= 9000 THEN 3
    ELSE IF utilization >= 8500 THEN 2
    ELSE 1

SeverityName(rank) ==
    CASE rank = 4 -> "CRITICAL" [] rank = 3 -> "HIGH" [] rank = 2 -> "MEDIUM" [] OTHER -> "LOW"

\* C5: the severity of every notification is the highest of its members'
\* severities, a member being Critical at 95 or more, High at 90 or more,
\* Medium at 85 or more and Low otherwise.
C5_SeverityIsMaximum ==
    \A k \in 1..Len(published) :
        /\ published[k].violations /= <<>>
        /\ \E j \in 1..Len(published[k].violations) :
               published[k].severity =
                   SeverityName(SeverityRank(published[k].violations[j].utilization_percentage))
        /\ \A j \in 1..Len(published[k].violations) :
               \E r \in SeverityRank(published[k].violations[j].utilization_percentage)..4 :
                   published[k].severity = SeverityName(r)

\* a notification whose first member is Low and whose severity is Critical
C5_Witness ==
    \E k \in 1..Len(published) :
        /\ Len(published[k].violations) >= 2
        /\ SeverityRank(published[k].violations[1].utilization_percentage) = 1
        /\ published[k].severity = "CRITICAL"

\* C6: when a listing call of a counting quota (api_count, api_count_multi)
\* fails, get_quota_utilization returns no result for the quota and the
\* failure is recorded in the health of the owning service.
C6_CountingFailureYieldsNull ==
    \A i \in 1..Len(history) :
        (history[i].method \in {"api_count", "api_count_multi"}
         /\ FailedInvocation(history[i].calls))
        => /\ history[i].result = None
           /\ ~ history[i].health_after[history[i].service]

\* C7: when the metric query of a cloudwatch quota fails,
\* get_quota_utilization returns no result for the quota and the cycle's
\* error list has exactly one entry referencing the quota.
C7_MetricFailureYieldsNull ==
    \A i \in 1..Len(history) :
        (history[i].method = "cloudwatch" /\ FailedInvocation(history[i].calls))
        => /\ history[i].result = None
           /\ (pc \in {"alert", "done"} =>
                 Cardinality({ k \in 1..Len(monitoring_results.errors) :
                                 /\ monitoring_results.errors[k].quota_code
                                        = Some(history[i].quota_code)
                                 /\ monitoring_results.errors[k].instance_id
                                        = history[i].instance_id }) = 1)

\* C8: a quota whose owning service is optional and has no handle, or is
\* marked unhealthy, yields no result in the cycle.
C8_OptionalServiceSkipped ==
    \A i \in 1..Len(history) :
        (history[i].service \in OptionalServices /\ ~ history[i].available)
        => history[i].result = None

\* the listing of the run serves all its pages without failure, at most as
\* many as the ceiling
WithinCeiling(env) ==
    env.fail_at = 0 /\ ~ env.endless /\ env.npages <= max_pages

\* the items of the first n pages of a listing, in page order
FirstPages(env, n) ==
    [k \in 1..(n * env.psize) |->
        << ((k - 1) \div env.psize) + 1, ((k - 1) % env.psize) + 1 >>]

\* C9: over a listing of N pages of P items, N at most the ceiling, collecting
\* returns the N*P items in page order and counting returns N*P, every page
\* being requested exactly once, the first without cursor and each next one
\* with the cursor the previous page returned.
C9_AllPagesInOrder ==
    (pc = "paged" /\ WithinCeiling(Val(page_in))) =>
        /\ Val(page_out).mode = "collect" =>
               Val(page_out).acc = FirstPages(Val(page_in), Val(page_in).npages)
        /\ Val(page_out).mode = "count" =>
               Val(page_out).acc = Val(page_in).npages * Val(page_in).psize
        /\ Len(calls) = Val(page_in).npages
        /\ \A k \in 1..Len(calls) :
               /\ calls[k].attempt = 1
               /\ calls[k].token = IF k = 1 THEN None
                                   ELSE PageNextToken(Val(page_in), k - 1)
               /\ PageOfToken(calls[k].token) = k

\* as many pages as the ceiling allows, of two items or more, were collected
C9_Witness ==
    /\ pc = "paged"
    /\ WithinCeiling(Val(page_in))
    /\ Val(page_in).npages = max_pages
    /\ Val(page_in).psize >= 2
    /\ Val(page_out).mode = "collect"
    /\ Len(Val(page_out).acc) = max_pages * Val(page_in).psize

\* every call for a page of the listing is answered, at once or on a retry
AllPagesAnswered(env) ==
    env.fail_at = 0 \/ env.fail_script = ThrottledOnceScript

\* C10: counting and collecting follow the cursor until a page has none or
\* max_pages (100) pages were fetched: never more than 100 listing calls are
\* made, and over a listing with a cursor on every page (or with 100 pages or
\* more) the run ends after exactly 100 calls and returns the items, or the
\* count, of the 100 pages fetched.
C10_PageCeiling ==
    /\ Invocations(calls) <= max_pages
    /\ (pc = "paged" /\ AllPagesAnswered(Val(page_in))) =>
         IF Val(page_in).endless \/ Val(page_in).npages >= max_pages
         THEN /\ Invocations(calls) = max_pages
              /\ Val(page_out).mode = "collect" =>
                     Val(page_out).acc = FirstPages(Val(page_in), max_pages)
              /\ Val(page_out).mode = "count" =>
                     Val(page_out).acc = max_pages * Val(page_in).psize
         ELSE Invocations(calls) = Val(page_in).npages

\* a count over a listing with a cursor on every page ended after 100 calls
C10_Witness ==
    /\ pc = "paged"
    /\ Val(page_in).endless
    /\ Val(page_in).fail_at = 0
    /\ Val(page_out).mode = "count"
    /\ Len(calls) = max_pages
    /\ Val(page_out).acc = max_pages * Val(page_in).psize

\* the parents a nested count enumerates: the items of all pages, in order
ParentsOf(env) ==
    FirstPages(env.listing, env.listing.npages)

\* the parents that carry the join key, in order
KeyedParents(env) ==
    SelectSeq(ParentsOf(env), LAMBDA p : p \notin env.missing_key)

RECURSIVE ChildrenFrom(_, _, _)
\* the number of children of the parents from position i on
ChildrenFrom(env, parents, i) ==
    IF i > Len(parents) THEN 0
    ELSE ChildListing(env, parents[i]).npages * ChildListing(env, parents[i]).psize
         + ChildrenFrom(env, parents, i + 1)

\* a nested count ran and every remote call of it was answered
NestedCountAnswered(e) ==
    /\ e.method = "api_count_multi"
    /\ e.instance_id = None
    /\ e.available
    /\ e.calls /= <<>>
    /\ ~ FailedInvocation(e.calls)
    /\ \A k \in 1..Len(e.calls) : e.calls[k].outcome = "ok"

\* C11: a nested count first enumerates all parents, then counts the children
\* of each parent that has the join key, once and in order, and returns the
\* sum of these counts; a parent without the key is skipped, the count goes on
\* and a result is returned.
C11_NestedCount ==
    \A i \in 1..Len(history) :
        NestedCountAnswered(history[i]) =>
            /\ history[i].result /= None
            /\ Val(history[i].result).current_usage
                   = ChildrenFrom(history[i].env, KeyedParents(history[i].env), 1)
            /\ Len(history[i].calls)
                   = history[i].env.listing.npages + Len(KeyedParents(history[i].env))
            /\ \A k \in 1..Len(history[i].calls) :
                   IF k <= history[i].env.listing.npages
                   THEN /\ history[i].calls[k].api = "list_domains"
                        /\ PageOfToken(history[i].calls[k].token) = k
                   ELSE /\ history[i].calls[k].api = "list_profile_object_types"
                        /\ history[i].calls[k].param
                               = Some(KeyedParents(history[i].env)[
                                          k - history[i].env.listing.npages])

\* a nested count over three parents with the key, not all with as many
\* children, and one parent without it
C11_Witness ==
    \E i \in 1..Len(history) :
        /\ NestedCountAnswered(history[i])
        /\ history[i].env.missing_key /= {}
        /\ Len(ParentsOf(history[i].env)) = Len(KeyedParents(history[i].env)) + 1
        /\ Len(KeyedParents(history[i].env)) >= 2
        /\ \E a, b \in 1..Len(KeyedParents(history[i].env)) :
               ChildListing(history[i].env, KeyedParents(history[i].env)[a]).psize
                   /= ChildListing(history[i].env, KeyedParents(history[i].env)[b]).psize
        /\ history[i].result /= None
        /\ Val(history[i].result).current_usage
               = ChildrenFrom(history[i].env, KeyedParents(history[i].env), 1)

\* the stores that reached the backends (the batch was not empty)
Attempted == { i \in 1..Len(stores) : stores[i].data /= None }

\* the put_object calls of store i on timestamped keys
TimestampedPuts(i) ==
    { j \in 1..Len(stores[i].s3_calls) : ~ stores[i].s3_calls[j].latest }

\* C12: storage backends are independent. In every store of a non-empty batch
\* or of a report, each configured backend is attempted exactly once (one
\* timestamped put_object, one put_item) whatever the other backend did, a
\* backend that is not configured is not attempted, and each success flag is
\* the outcome of its own backend alone.
C12_BackendsIndependent ==
    \A i \in Attempted :
        /\ Cardinality(TimestampedPuts(i)) = (IF storage_engine.use_s3 THEN 1 ELSE 0)
        /\ Len(stores[i].dynamodb_calls) = (IF storage_engine.use_dynamodb THEN 1 ELSE 0)
        /\ stores[i].result.s3_success = (storage_engine.use_s3 /\ stores[i].s3_fail = 0)
        /\ stores[i].result.dynamodb_success =
               (storage_engine.use_dynamodb /\ ~ stores[i].dynamodb_fail)

\* a store whose object-store write failed while its table-store write
\* succeeded, and a store with the opposite outcomes
C12_Witness ==
    /\ storage_engine.use_s3
    /\ storage_engine.use_dynamodb
    /\ \E i \in Attempted :
         /\ stores[i].s3_fail = 1
         /\ stores[i].result.dynamodb_success
         /\ stores[i].dynamodb_calls /= <<>>
    /\ \E i \in Attempted :
         /\ stores[i].dynamodb_fail
         /\ stores[i].result.s3_success

\* the target of store i: the kind of record and the instance it is about
TargetOf(i) == <<stores[i].kind, stores[i].instance_id>>

\* the stores of target t whose object-store / table-store write succeeded
S3Stores(t) == { i \in Attempted : TargetOf(i) = t /\ stores[i].result.s3_success }
DynamodbStores(t) ==
    { i \in Attempted : TargetOf(i) = t /\ stores[i].result.dynamodb_success }

\* the most recent store of a non-empty set of stores
MostRecent(S) == CHOOSE i \in S : \A j \in S : j <= i

\* the keys a sequence of backend calls wrote to
KeysOf(backend_calls) == { backend_calls[j] : j \in 1..Len(backend_calls) }

\* the object store keeps, under a key that every successful store of the
\* target writes, the content of the most recent one
S3LatestHolds(t) ==
    S3Stores(t) /= {} =>
        \E k \in DOMAIN s3_objects :
            /\ \A i \in S3Stores(t) : k \in KeysOf(stores[i].s3_calls)
            /\ s3_objects[k] = Val(stores[MostRecent(S3Stores(t))].data)

\* the same for the table store
DynamodbLatestHolds(t) ==
    DynamodbStores(t) /= {} =>
        \E k \in DOMAIN dynamodb_items :
            /\ \A i \in DynamodbStores(t) : k \in KeysOf(stores[i].dynamodb_calls)
            /\ dynamodb_items[k] = Val(stores[MostRecent(DynamodbStores(t))].data)

\* C13: latest pointer. After any sequence of stores, every configured backend
\* (object store and table store) holds, under a fixed key of the target that
\* each successful store writes alongside its timestamped record, the content
\* of the most recent successful store for that target.
C13_LatestPointer ==
    \A i \in Attempted : S3LatestHolds(TargetOf(i)) /\ DynamodbLatestHolds(TargetOf(i))

\* stores i < j of the same batch for the same target
SameBatchTwice(i, j) ==
    /\ i < j
    /\ TargetOf(i) = TargetOf(j)
    /\ stores[i].input = stores[j].input

\* on the object store, stores i and j left two distinct timestamped records,
\* the first one still with the content of store i, and the latest key has the
\* content of store j as long as j is the most recent store of the target
S3TwoRecords(i, j) ==
    (stores[i].result.s3_success /\ stores[j].result.s3_success) =>
        /\ stores[i].s3_calls[1] /= stores[j].s3_calls[1]
        /\ s3_objects[stores[i].s3_calls[1]] = Val(stores[i].data)
        /\ j = MostRecent(S3Stores(TargetOf(j))) =>
               s3_objects[stores[j].s3_calls[2]] = Val(stores[j].data)

\* on the table store, stores i and j left two distinct timestamped records,
\* the first one still with the content of store i
DynamodbTwoRecords(i, j) ==
    (stores[i].result.dynamodb_success /\ stores[j].result.dynamodb_success) =>
        /\ stores[i].dynamodb_calls[1] /= stores[j].dynamodb_calls[1]
        /\ dynamodb_items[stores[i].dynamodb_calls[1]] = Val(stores[i].data)

BackendWriteFailed(i) == stores[i].s3_fail /= 0 \/ stores[i].dynamodb_fail

\* C15: storage errors are collected. A store whose backend write failed
\* returns a non-empty errors list, and the cycle's storage_errors, built from
\* the errors lists of the stores, has an entry for it.
C15_StorageErrorsCollected ==
    \A i \in Attempted :
        BackendWriteFailed(i) =>
            /\ stores[i].result.errors /= <<>>
            /\ Len(CollectStorageErrors(stores, i)) > Len(CollectStorageErrors(stores, i - 1))

\* the publish calls that raised / that were answered
FailedPublishes == { k \in 1..Len(published) : published[k].raised }
SuccessfulPublishes == { k \in 1..Len(published) : ~ published[k].raised }

\* C16: notification errors are isolated. Once process_monitoring_results has
\* returned, every partition with violations had its publish attempted exactly
\* once whichever publishes failed, every failed publish left exactly one error
\* entry naming its partition and no other error was recorded, and alerts_sent
\* is the number of successful publishes.
C16_NotificationErrorsIsolated ==
    (AlertsEvaluated /\ alert_results.processed) =>
        /\ \A t \in Targets : Violating(t) /= <<>> => Len(Notifications(t)) = 1
        /\ \A k \in FailedPublishes :
               Cardinality({ e \in 1..Len(alert_results.errors) :
                               alert_results.errors[e] = published[k].target }) = 1
        /\ Len(alert_results.errors) = Cardinality(FailedPublishes)
        /\ alert_results.alerts_sent = Cardinality(SuccessfulPublishes)

\* the account alert failed, the alert of an instance was attempted after it
\* and went through
C16_Witness ==
    /\ AlertsEvaluated
    /\ alert_results.processed
    /\ Len(published) >= 2
    /\ published[1].target = "ACCOUNT"
    /\ published[1].raised
    /\ ~ published[2].raised
    /\ alert_results.errors = <<"ACCOUNT">>
    /\ alert_results.alerts_sent = 1

\* the construction of the registry is over (it returned or it raised)
ConstructionOver == pc \in {"constructed", "checked", "aborted"}

\* the construction was the last thing the registry did
JustConstructed ==
    connectivity /= None /\ Val(connectivity).handler = "construct"

\* C17: construction by requirement. The construction aborts exactly when a
\* required service failed to initialize; a construction that returned tried
\* every declared service, each one ending with a handle or with an
\* initialization error; an optional service whose handle could not be created
\* has an initialization error; and a service with an initialization error has
\* no handle, is unhealthy, and get_client returns nothing for it afterwards.
C17_ConstructionByRequirement ==
    ConstructionOver =>
        /\ (pc = "aborted") = (initialization_errors \cap RequiredServices /= {})
        /\ pc /= "aborted" =>
               \A s \in SUPPORTED_SERVICES : (s \in clients) /= (s \in initialization_errors)
        /\ JustConstructed =>
               /\ pc /= "aborted" => Val(connectivity).attempted = Len(DeclaredServices)
               /\ \A s \in OptionalServices :
                      (Val(connectivity).outcomes[s] = "no_client")
                          => s \in initialization_errors
        /\ \A s \in initialization_errors :
               /\ s \notin clients
               /\ ~ client_health[s]
               /\ ~ GetClient(World, s)

\* an optional service failed, and the construction went on to give handles
\* to the services declared after it
C17_Witness ==
    /\ pc = "constructed"
    /\ initialization_errors = {"customer-profiles"}
    /\ Val(connectivity).outcomes["customer-profiles"] = "no_client"
    /\ {"wisdom", "service-quotas", "cloudwatch", "sns"} \subseteq clients
    /\ ~ GetClient(World, "customer-profiles")
    /\ GetClient(World, "wisdom")

\* the required services whose no-op call was made in the last construction or
\* health check
Tested ==
    IF connectivity = None THEN {}
    ELSE { s \in RequiredServices :
             Val(connectivity).outcomes[s] \notin {"untried", "no_client"} }

\* C18: connectivity verification. A required service whose no-op call failed
\* with AccessDenied or UnauthorizedOperation has a handle and is healthy; one
\* whose call failed with any other error is unhealthy; after a construction
\* and after a health check alike.
C18_AcceptableConnectivityFailures ==
    \A s \in Tested :
        /\ Val(connectivity).outcomes[s] \in {"AccessDenied", "UnauthorizedOperation"}
               => (s \in clients /\ client_health[s])
        /\ Val(connectivity).outcomes[s] \notin {"ok", "AccessDenied", "UnauthorizedOperation"}
               => ~ client_health[s]

\* a health check in which one service answered AccessDenied and stayed
\* healthy while another answered Forbidden and became unhealthy
C18_Witness ==
    /\ pc = "checked"
    /\ Val(connectivity).handler = "health_check"
    /\ Val(connectivity).outcomes["connect"] = "AccessDenied"
    /\ client_health["connect"]
    /\ Val(connectivity).outcomes["sns"] = "Forbidden"
    /\ ~ client_health["sns"]

\* the call of a behaviour of SpecCall that started with a handle for its
\* service
CallMade == pc = "called" /\ history[1].available

\* the outcome of the k-th attempt of the call
AttemptOutcome(k) == history[1].calls[k].outcome

C20_BoundedRetries ==
    pc = "called" =>
        /\ Len(history[1].calls) <= max_retries
        /\ \A k \in 1..Len(history[1].calls) :
               /\ history[1].calls[k].attempt = k
               /\ AttemptOutcome(k) = history[1].script[k]
        /\ history[1].ok =
               (/\ history[1].calls /= <<>>
                /\ AttemptOutcome(Len(history[1].calls)) = "ok")

\* a call that used its three attempts on three different kinds of error and
\* returned a failure
C20_Witness ==
    /\ CallMade
    /\ Len(history[1].calls) = max_retries
    /\ AttemptOutcome(1) \in ThrottlingCodes
    /\ AttemptOutcome(2) \in OtherCodes
    /\ AttemptOutcome(3) \in ServiceErrorCodes
    /\ ~ history[1].ok

\* the call used all its attempts: the loop ended because retry_count reached
\* max_retries
RetriesExhausted ==
    /\ CallMade
    /\ Len(history[1].calls) = max_retries
    /\ AttemptOutcome(max_retries) \in
           ThrottlingCodes \cup ServiceErrorCodes \cup OtherCodes \cup ConnectionErrors

\* C21: after a call exhausted its retries its service is unhealthy in the
\* registry and get_client returns nothing for it; after a call that returned
\* a response its service is healthy.
C21_ExhaustionMarksUnhealthy ==
    /\ RetriesExhausted =>
           /\ ~ client_health[history[1].service]
           /\ ~ GetClient(World, history[1].service)
    /\ (CallMade /\ history[1].ok) => client_health[history[1].service]

\* the k-th get_connect_instances call was made
Discovery(k) == pc = "discover" /\ k \in 1..Len(history)

\* the cache that call found was filled less than the TTL before it
FreshCache(h) ==
    /\ h.cache_before.timestamp /= None
    /\ h.clock - Val(h.cache_before.timestamp) < CACHE_TTL_SECONDS * TicksPerSecond

\* the first list_instances call of the discovery was answered
ListingAnswered(h) ==
    \E c \in 1..Len(h.calls) :
        /\ h.calls[c].api = "list_instances"
        /\ h.calls[c].token = None
        /\ h.calls[c].outcome = "ok"

\* the discovery called list_instances
ListingCalled(h) ==
    /\ h.calls /= <<>>
    /\ h.calls[1].service = "connect"
    /\ h.calls[1].api = "list_instances"

\* C22: once a discovery filled the cache, a get_connect_instances call
\* without force_refresh made less than 300 seconds after it returns the
\* cached list and calls nothing; a call with force_refresh, or one made 300
\* seconds or more after it, calls list_instances, and when that call is
\* answered the cache holds the list it returns and the time of the call.
C22_ResourceSetCache ==
    \A k \in 1..MaxDiscoveries :
        Discovery(k) =>
            /\ (~ history[k].force_refresh /\ FreshCache(history[k])) =>
                   /\ history[k].returned = Val(history[k].cache_before.instances)
                   /\ history[k].calls = <<>>
                   /\ history[k].cache_after = history[k].cache_before
            /\ (history[k].force_refresh \/ ~ FreshCache(history[k])) =>
                   /\ ListingCalled(history[k])
                   /\ ListingAnswered(history[k]) =>
                          /\ history[k].cache_after.instances = Some(history[k].returned)
                          /\ history[k].cache_after.timestamp = Some(history[k].clock)

\* a call served from a fresh cache, then a call after the TTL that replaced
\* the cache with another list
C22_Witness ==
    /\ Discovery(2)
    /\ ListingAnswered(history[1])
    /\ ~ history[2].force_refresh
    /\ ~ FreshCache(history[2])
    /\ ListingAnswered(history[2])
    /\ history[2].cache_after.instances /= history[2].cache_before.instances
    /\ history[2].cache_after.timestamp = Some(history[2].clock)

\* a fresh cache answered a call without any remote call
C22_WitnessHit ==
    /\ Discovery(2)
    /\ ~ history[2].force_refresh
    /\ FreshCache(history[2])
    /\ history[2].returned /= <<>>
    /\ history[2].calls = <<>>

\* the call found a cached list with something in it
UsableCache(h) ==
    /\ h.cache_before.instances /= None
    /\ Val(h.cache_before.instances) /= <<>>

\* the discovery's first list_instances call got no answer
DiscoveryFailed(h) == ListingCalled(h) /\ ~ ListingAnswered(h)

C23_WitnessNoCache ==
    /\ Discovery(1)
    /\ DiscoveryFailed(history[1])
    /\ history[1].returned = <<>>

\* C24: the result of a finished monitoring cycle carries the count of quotas
\* checked, the count of violations found, the count of alerts sent and an
\* errors list, whatever failed during the cycle.
C24_StructuredSummary ==
    pc = "done" =>
        /\ {"total_quotas_checked", "violations_found", "errors"}
               \subseteq MonitoringResultKeys(monitoring_results)
        /\ "alerts_sent" \in AlertResultKeys(alert_results)

\* a cycle with active instances whose alert engine was created and validated
\* returns all four
C24_SummaryWithInstances ==
    (pc = "done" /\ instances /= <<>> /\ alert_results.error = "") =>
        /\ {"total_quotas_checked", "violations_found", "errors"}
               \subseteq MonitoringResultKeys(monitoring_results)
        /\ "alerts_sent" \in AlertResultKeys(alert_results)

\* the parallel path is through
ParallelDone == pc = "done" /\ dataset /= None

MeasuredQuota(code) ==
    /\ pc = "measured"
    /\ history[1].quota_code = code

\* a call of the measurement was answered
MeasureAnswered ==
    \E c \in 1..Len(history[1].calls) : history[1].calls[c].outcome = "ok"

\* C26: for the quota whose listing operation is
\* describe_user_hierarchy_structure, get_quota_utilization returns a result
\* whose current usage is the number of named levels of the structure that
\* was returned, and 0 when no structure was returned.
C26_HierarchyLevelsCounted ==
    MeasuredQuota("L-5243FFAF") =>
        /\ history[1].result /= None
        /\ (history[1].env.hierarchy.script = OkScript /\ history[1].env.hierarchy.present) =>
               Val(history[1].result).current_usage =
                   Cardinality(history[1].env.hierarchy.named)
        /\ (history[1].env.hierarchy.script = OkScript /\ ~ history[1].env.hierarchy.present) =>
               Val(history[1].result).current_usage = 0

\* the hierarchy quota yields no result and no remote call, whatever the
\* structure
C26_HierarchyNeverLookedUp ==
    MeasuredQuota("L-5243FFAF") =>
        /\ history[1].result = None
        /\ history[1].val = None
        /\ history[1].calls = <<>>

\* a metric of the quota with the given code was sampled and the call answered
Sampled(code) ==
    /\ MeasuredQuota(code)
    /\ history[1].method = "cloudwatch"
    /\ MeasureAnswered

\* the values of a series, and the statistics of a non-empty one
SeriesValues(dp) == { dp[i].value : i \in 1..Len(dp) }
SeriesMaximum(dp) == CHOOSE v \in SeriesValues(dp) : \A u \in SeriesValues(dp) : u <= v
SeriesSum(dp) == SumOfDatapoints(dp, 1)

\* C27: a sampled metric yields a result; its usage is 0 for an empty series,
\* the maximum of the points of a non-empty series for statistic Maximum and
\* their total for statistic Sum.
C27_SeriesReducedByStatistic ==
    \A code \in {"L-F7D9D426", "L-E8F843D1"} :
        Sampled(code) =>
            /\ history[1].result /= None
            /\ history[1].env.metric.Datapoints = <<>> =>
                   Val(history[1].result).current_usage = 0
            /\ (history[1].env.metric.Datapoints /= <<>> /\ history[1].statistic = "Maximum") =>
                   Val(history[1].result).current_usage =
                       SeriesMaximum(history[1].env.metric.Datapoints)
            /\ (history[1].env.metric.Datapoints /= <<>> /\ history[1].statistic = "Sum") =>
                   Val(history[1].result).current_usage =
                       SeriesSum(history[1].env.metric.Datapoints)

\* a sampled metric yields a result whose usage is the value of the point
\* with the latest timestamp, 0 for an empty series, whatever the statistic
C27_LatestPointTaken ==
    \A code \in {"L-F7D9D426", "L-E8F843D1"} :
        Sampled(code) =>
            /\ history[1].result /= None
            /\ history[1].env.metric.Datapoints = <<>> =>
                   Val(history[1].result).current_usage = 0
            /\ history[1].env.metric.Datapoints /= <<>> =>
                   \E i \in 1..Len(history[1].env.metric.Datapoints) :
                       /\ \A j \in 1..Len(history[1].env.metric.Datapoints) :
                              history[1].env.metric.Datapoints[j].Timestamp
                                  <= history[1].env.metric.Datapoints[i].Timestamp
                       /\ Val(history[1].result).current_usage =
                              history[1].env.metric.Datapoints[i].value

\* the rate of the quota with the given code was estimated and the call
\* answered
RateEstimated(code) ==
    /\ MeasuredQuota(code)
    /\ history[1].method = "cloudwatch_api"
    /\ MeasureAnswered

\* C28: a rate estimate reports 90%, 50% or 10% of the declared limit and
\* nothing else: 50% at least when there is traffic in the window, 10% when
\* there is none.
C28_RateEstimatePolicy ==
    RateEstimated("L-L7M8N9O0") =>
        /\ history[1].result /= None
        /\ Val(history[1].result).current_usage * 10 \in
               { 9 * history[1].default_limit, 5 * history[1].default_limit,
                 history[1].default_limit }
        /\ SeriesSum(history[1].env.metric.Datapoints) = 0 =>
               Val(history[1].result).current_usage * 10 = history[1].default_limit
        /\ SeriesSum(history[1].env.metric.Datapoints) > 0 =>
               Val(history[1].result).current_usage * 10 \in
                   { 9 * history[1].default_limit, 5 * history[1].default_limit }

\* a rate estimate reports the calls counted in the window divided by its 300
\* seconds, rounded down
C28_RatePerSecond ==
    RateEstimated("L-L7M8N9O0") =>
        /\ history[1].result /= None
        /\ Val(history[1].result).current_usage * 300
               <= SeriesSum(history[1].env.metric.Datapoints)
        /\ SeriesSum(history[1].env.metric.Datapoints)
               < (Val(history[1].result).current_usage + 1) * 300

\* the limit of the quota with the given code was looked up
LookedUp(code) ==
    /\ MeasuredQuota(code)
    /\ history[1].method = "service_quotas"

\* get_service_quota was answered, with quota data
LookupSucceeded == MeasureAnswered /\ history[1].env.lookup.has_quota

\* C29: the lookup of a limit hands back the usage and the limit of the
\* response when get_service_quota is answered with quota data, and these
\* are the usage and the limit of the result; when the call fails or the
\* answer has no quota data it hands back no usage and the declared default
\* limit, and the measurement ends without a result rather than with an error.
C29_LookupOrDefaultLimit ==
    LookedUp("L-48C6B3F1") =>
        /\ history[1].known
        /\ LookupSucceeded =>
               /\ history[1].val = Some(history[1].env.lookup.MetricValue)
               /\ history[1].limit = history[1].env.lookup.Value
               /\ history[1].result /= None
               /\ Val(history[1].result).current_usage = history[1].env.lookup.MetricValue
               /\ Val(history[1].result).quota_limit = history[1].env.lookup.Value
        /\ ~ LookupSucceeded =>
               /\ history[1].val = None
               /\ history[1].limit = history[1].default_limit
               /\ history[1].result = None

\* a denied lookup whose response would have carried another limit
C29_Witness ==
    /\ LookedUp("L-48C6B3F1")
    /\ history[1].calls /= <<>>
    /\ ~ MeasureAnswered
    /\ history[1].env.lookup.Value /= history[1].default_limit
    /\ history[1].limit = history[1].default_limit

\* an answered lookup whose limit is not the declared one
C29_WitnessAnswered ==
    /\ LookedUp("L-48C6B3F1")
    /\ LookupSucceeded
    /\ history[1].limit /= history[1].default_limit
    /\ history[1].val /= Some(0)

\* the monitoring stage of a cycle is over
MonitoringOver == pc \in {"alert", "done"}

\* the get_quota_utilization calls made for a quota in a context
Evaluations(code, instance_id) ==
    { k \in 1..Len(history) :
        history[k].quota_code = code /\ history[k].instance_id = instance_id }

\* the instances that have an entry in the summary
MonitoredInstances ==
    { monitoring_results.instance_results[k].instance_id :
        k \in 1..Len(monitoring_results.instance_results) }

\* every instance-level quota was evaluated once for each monitored instance,
\* not at all for the others, and never without an instance
InstanceQuotasPerInstance ==
    \A j \in 1..Len(GetInstanceLevelQuotas) :
        /\ Evaluations(GetInstanceLevelQuotas[j].code, None) = {}
        /\ \A i \in 1..Len(AllInstances) :
               Cardinality(Evaluations(GetInstanceLevelQuotas[j].code, Some(AllInstances[i])))
                   = IF AllInstances[i] \in MonitoredInstances THEN 1 ELSE 0

\* every account-level quota was evaluated once without an instance, and
\* never for an instance
AccountQuotasOnce ==
    \A j \in 1..Len(GetAccountLevelQuotas) :
        /\ Cardinality(Evaluations(GetAccountLevelQuotas[j].code, None)) = 1
        /\ \A i \in 1..Len(AllInstances) :
               Evaluations(GetAccountLevelQuotas[j].code, Some(AllInstances[i])) = {}

\* C30: in every cycle, however many instances were discovered, each
\* account-level quota is evaluated exactly once, without an instance, and
\* each instance-level quota once per monitored instance and never without
\* an instance.
C30_EvaluatedPerScope ==
    MonitoringOver => (AccountQuotasOnce /\ InstanceQuotasPerInstance)

\* the same for the cycles that discovered an active instance
C30_EvaluatedPerScopeWithInstances ==
    (MonitoringOver /\ instances /= <<>>) => (AccountQuotasOnce /\ InstanceQuotasPerInstance)

\* a cycle without active instances evaluates no quota at all
C30_NothingEvaluatedWithoutInstances ==
    (MonitoringOver /\ instances = <<>>) => history = <<>>

\* a quota with an unknown method was resolved
UnknownMethodResolved ==
    /\ pc = "measured"
    /\ history[1].method \notin
           {"api_count", "api_count_multi", "cloudwatch", "cloudwatch_api", "service_quotas"}

\* C31: a quota whose method is none of the known ones resolves to no result,
\* without any remote call and without a change of the registry, and the
\* resolution returns to its caller.
C31_UnknownMethodSkipped ==
    UnknownMethodResolved =>
        /\ ~ history[1].known
        /\ history[1].result = None
        /\ history[1].calls = <<>>
        /\ calls = <<>>

\* an unknown method met in the context its scope asks for, the remote side
\* having data for it
C31_Witness ==
    /\ UnknownMethodResolved
    /\ history[1].scope = "INSTANCE"
    /\ history[1].instance_id /= None
    /\ history[1].env.metric.Datapoints /= <<>>
    /\ history[1].result = None

ReconnectReturned ==
    /\ pc = "reconnected"
    /\ connectivity /= None
    /\ Val(connectivity).handler = "reconnect_client"

\* C32: a reconnection that returns true leaves a declared service with a
\* handle and healthy, so that get_client returns the handle; one that returns
\* false leaves a declared service unhealthy, so that get_client returns
\* nothing; the reconnection of an undeclared service returns false and
\* changes neither the handles nor the health map.
C32_ReconnectResetsHealth ==
    ReconnectReturned =>
        /\ Val(connectivity).service_name \in SUPPORTED_SERVICES =>
             /\ Val(connectivity).returned =>
                  /\ Val(connectivity).service_name \in clients
                  /\ client_health[Val(connectivity).service_name]
                  /\ GetClient(World, Val(connectivity).service_name)
             /\ ~ Val(connectivity).returned =>
                  /\ ~ client_health[Val(connectivity).service_name]
                  /\ ~ GetClient(World, Val(connectivity).service_name)
        /\ Val(connectivity).service_name \notin SUPPORTED_SERVICES =>
             /\ ~ Val(connectivity).returned
             /\ clients = Val(connectivity).clients_before
             /\ client_health = Val(connectivity).client_health_before

\* a healthy required service lost its health to a failed reconnection
C32_Witness ==
    /\ ReconnectReturned
    /\ Val(connectivity).service_name = "cloudwatch"
    /\ Val(connectivity).outcome = "EndpointConnectionError"
    /\ Val(connectivity).client_health_before["cloudwatch"]
    /\ ~ Val(connectivity).returned
    /\ ~ GetClient(World, "cloudwatch")

\* the services for which _test_client_connectivity has a no-op call
ConnectivityTested == {"connect", "service-quotas", "cloudwatch", "sns"}

\* the no-op call of a service answered or failed with an acceptable code
ConnectivityAccepted(outcome) ==
    outcome \in {"ok", "AccessDenied", "UnauthorizedOperation"}

\* the step is a health_check
HealthCheckStep ==
    /\ pc' = "rechecked"
    /\ connectivity' /= None
    /\ Val(connectivity').handler = "health_check"

\* the health check of the step turned service s from unhealthy to healthy
TurnedHealthy(s) ==
    /\ HealthCheckStep
    /\ ~ client_health[s]
    /\ client_health'[s]

\* C39: after any sequence of construction, reconnect_client and health_check
\* a healthy service has a stored handle, get_client returns a handle exactly
\* when is_service_available is true, and health_check turns a service healthy
\* only when a connectivity call for it answered or failed with an acceptable
\* code (so never an optional service, for which no call is made).
C39_RegistryInvariant ==
    [][/\ \A s \in SUPPORTED_SERVICES : client_health'[s] => s \in clients'
       /\ \A s \in SUPPORTED_SERVICES \cup {UNDECLARED_SERVICE} :
            GetClient([clients |-> clients', client_health |-> client_health'], s)
                <=> IsServiceAvailable([clients |-> clients',
                                        client_health |-> client_health'], s)
       /\ \A s \in SUPPORTED_SERVICES :
            TurnedHealthy(s) =>
                /\ s \in ConnectivityTested
                /\ ConnectivityAccepted(Val(connectivity').outcomes[s])]_vars

\* C39, the part on handles: a healthy service has a stored handle and
\* get_client agrees with is_service_available
C39_HealthyHasHandle ==
    /\ \A s \in SUPPORTED_SERVICES : client_health[s] => s \in clients
    /\ \A s \in SUPPORTED_SERVICES \cup {UNDECLARED_SERVICE} :
         GetClient(World, s) <=> IsServiceAvailable(World, s)

\* C39, the part on health checks for the services that have a no-op call
C39_TestedTurnedHealthyByCall ==
    [][\A s \in ConnectivityTested :
         TurnedHealthy(s) => ConnectivityAccepted(Val(connectivity').outcomes[s])]_vars

\* the k-th get_connect_instances call of a monitor without sts handle and
\* without account id listed at least one instance
AccountLookedUpFromInstances(k) ==
    /\ k <= Len(history)
    /\ ~ history[k].has_sts
    /\ history[k].account_id_before = None
    /\ history[k].returned /= <<>>
    /\ history[k].nesting > 0
    /\ history[k].calls /= <<>>
    /\ history[k].calls[1].outcome = "ok"

\* C33: instance discovery ends by itself even when sts has no handle: with
\* at least one instance listed and no cached account id, the chain
\* get_connect_instances -> _enhance_instance_metadata -> _get_account_id ->
\* get_connect_instances never nests up to the interpreter's limit.
C33_DiscoveryRecursionBounded ==
    pc = "account" =>
        \A k \in 1..Len(history) :
            AccountLookedUpFromInstances(k) =>
                /\ ~ history[k].overflowed
                /\ history[k].nesting < MaxNesting

\* C33, with an sts handle or a cached account id: get_connect_instances is
\* never nested
C33_NoNestingWithStsOrAccountId ==
    pc = "account" =>
        \A k \in 1..Len(history) :
            (history[k].has_sts \/ history[k].account_id_before /= None) =>
                /\ history[k].nesting <= 1
                /\ ~ history[k].overflowed

\* some instance of the parallel run failed its permission validation
SomeInstanceRefused ==
    \E i \in 1..Len(ParallelInstances) : Val(task_results).validated[i] = "denied"

\* C34: the sequential and the parallel path produce the same cycle summary
\* for the same inputs: they agree on instances_monitored, on the instances
\* that have an entry in instance_results and on the errors, also when an
\* instance fails its permission validation.
C34_SameSummaryOnBothPaths ==
    (ParallelDone /\ ConnectionKept(Val(dataset))) =>
        InstanceSummary(monitoring_results)
            = InstanceSummary(SequentialSummary(Val(dataset)))

\* C34, for the runs in which every instance passes its permission
\* validation: the two paths produce the same summary
C34_SameSummaryWhenValidated ==
    (ParallelDone /\ ConnectionKept(Val(dataset)) /\ ~ SomeInstanceRefused) =>
        monitoring_results = SequentialSummary(Val(dataset))

\* C34, the errors: the two paths record the same errors, refused instances
\* included
C34_SameErrors ==
    (ParallelDone /\ ConnectionKept(Val(dataset))) =>
        monitoring_results.errors = SequentialSummary(Val(dataset)).errors

\* C34, what the parallel path does with a refused instance: an entry and a
\* count, neither of which the sequential path gives it
C34_RefusedInstanceCountedInParallel ==
    (ParallelDone /\ ConnectionKept(Val(dataset))) =>
        \A i \in 1..Len(ParallelInstances) :
            Val(task_results).validated[i] = "denied" =>
                /\ ParallelInstances[i] \in InstanceSummary(monitoring_results).entries
                /\ ParallelInstances[i]
                       \notin InstanceSummary(SequentialSummary(Val(dataset))).entries
                /\ monitoring_results.instances_monitored = Len(ParallelInstances)

\* a call of the discovery for a page after the first got no answer
LaterPageFailed(h) ==
    /\ ListingAnswered(h)
    /\ \E c \in 1..Len(h.calls) :
         /\ h.calls[c].api = "list_instances"
         /\ h.calls[c].token /= None
         /\ h.calls[c].outcome /= "ok"
    /\ h.calls[Len(h.calls)].outcome /= "ok"

\* the instances of every page of the listing, in order
RECURSIVE AllListed(_, _)
AllListed(pages, n) ==
    IF n = 0 THEN <<>> ELSE AllListed(pages, n - 1) \o pages[n]

\* C35: the instance cache is only ever replaced by a complete enumeration:
\* when a page after the first fails during a discovery, the cached set is
\* not overwritten by the partial list of the pages fetched so far.
C35_CacheReplacedByCompleteListOnly ==
    \A k \in 1..MaxDiscoveries :
        Discovery(k) =>
            /\ LaterPageFailed(history[k]) =>
                   history[k].cache_after = history[k].cache_before
            /\ history[k].cache_after /= history[k].cache_before =>
                   Val(history[k].cache_after.instances)
                       = EnhanceAll(AllListed(history[k].env.pages,
                                              Len(history[k].env.pages)),
                                    history[k].clock)

\* C35, for the discoveries all of whose pages are answered: the cache holds
\* the complete list
C35_CompleteListCachedWhenAllPagesAnswered ==
    \A k \in 1..MaxDiscoveries :
        (Discovery(k) /\ ListingAnswered(history[k]) /\ ~ LaterPageFailed(history[k])) =>
            /\ history[k].cache_after.instances
                   = Some(EnhanceAll(AllListed(history[k].env.pages,
                                               Len(history[k].env.pages)),
                                     history[k].clock))
            /\ history[k].returned = Val(history[k].cache_after.instances)

\* C35, what a failed later page does: the pages fetched before it are
\* cached and returned
C35_PartialListCached ==
    \A k \in 1..MaxDiscoveries :
        (Discovery(k) /\ LaterPageFailed(history[k])) =>
            /\ history[k].cache_after.instances
                   = Some(EnhanceAll(history[k].env.pages[1], history[k].clock))
            /\ history[k].cache_after.timestamp = Some(history[k].clock)

\* the cycle is over and monitor_and_alert handed its summary to
\* process_monitoring_results
AlertsProcessed ==
    /\ pc = "done"
    /\ alert_results.processed

\* C36: whenever monitor_and_alert processes alerts, the violations the alert
\* engine counts are the violations the monitoring pass found, for every
\* threshold passed to the cycle, None and 0 included.
C36_ViolationCountsAgree ==
    AlertsProcessed =>
        alert_results.total_violations = monitoring_results.violations_found

\* C36, for the thresholds other than 0 (None included): the two counts agree
C36_ViolationCountsAgreeNonZero ==
    (AlertsProcessed /\ threshold_percentage /= Some(0)) =>
        alert_results.total_violations = monitoring_results.violations_found

\* C36, threshold 0: the monitoring pass counts every result, the alert
\* engine those at or above the default threshold
C36_ZeroThresholdCounts ==
    (AlertsProcessed /\ threshold_percentage = Some(0)) =>
        /\ monitoring_results.violations_found = monitoring_results.total_quotas_checked
        /\ alert_results.total_violations <= monitoring_results.violations_found

\* a batch was prepared for storage
BatchPrepared == pc = "prepared" /\ Len(history) = 1

\* the results of a batch in category c at or above the threshold
CategoryViolations(metrics_data, c, threshold) ==
    Cardinality({ i \in 1..Len(metrics_data) :
                    /\ metrics_data[i].category = c
                    /\ IsViolation(metrics_data[i], threshold) })

\* C37: the violations_count stored with a metrics batch, and the violations
\* of each category of its summary, are the numbers of results of the batch
\* whose utilization is at or above the threshold configured for the cycle,
\* for every configured threshold in 1..99.
C37_StoredViolationsFollowThreshold ==
    BatchPrepared =>
        /\ history[1].data.violations_count
               = ViolationCount(history[1].metrics_data,
                                MonitoringThreshold(threshold_percentage))
        /\ history[1].summary /= None =>
               \A c \in CategoriesOf(history[1].metrics_data) :
                   Val(history[1].summary).categories[c].violations
                       = CategoryViolations(history[1].metrics_data, c,
                                            MonitoringThreshold(threshold_percentage))

\* C37, what is stored: the counts of the results at or above 80 percent,
\* whatever the configured threshold
C37_StoredViolationsAtEighty ==
    BatchPrepared =>
        /\ history[1].data.violations_count
               = ViolationCount(history[1].metrics_data, DEFAULT_THRESHOLD)
        /\ history[1].summary /= None =>
               \A c \in CategoriesOf(history[1].metrics_data) :
                   Val(history[1].summary).categories[c].violations
                       = CategoryViolations(history[1].metrics_data, c, DEFAULT_THRESHOLD)

\* the step is a store_* call that called _store_to_s3_*
ObjectStoreStep ==
    /\ Len(stores') = Len(stores) + 1
    /\ stores'[Len(stores')].s3_calls /= <<>>

\* the latest object of every prefix and instance is no newer than the newest
\* timestamped object of that prefix and instance
LatestNotNewer(objects) ==
    \A k \in DOMAIN objects :
        k.latest =>
            \E t \in DOMAIN objects :
                /\ ~ t.latest
                /\ t.prefix = k.prefix
                /\ t.instance_id = k.instance_id
                /\ objects[k].timestamp <= objects[t].timestamp

\* C38: an object-store write is all-or-nothing with respect to its reported
\* outcome: when _store_to_s3_* reports failure, the call wrote neither the
\* timestamped key nor the latest key; when it reports success both hold the
\* same content; and the latest key is never newer than the newest
\* timestamped record.
C38_ObjectStoreAllOrNothing ==
    [][ObjectStoreStep =>
         /\ ~ stores'[Len(stores')].result.s3_success => s3_objects' = s3_objects
         /\ stores'[Len(stores')].result.s3_success =>
              /\ Len(stores'[Len(stores')].s3_calls) = 2
              /\ \A c \in 1..2 :
                   /\ stores'[Len(stores')].s3_calls[c] \in DOMAIN s3_objects'
                   /\ s3_objects'[stores'[Len(stores')].s3_calls[c]]
                          = Val(stores'[Len(stores')].data)
         /\ LatestNotNewer(s3_objects')]_vars

\* C38, the reported success: both keys hold the content of the call
C38_SuccessWritesBoth ==
    [][(ObjectStoreStep /\ stores'[Len(stores')].result.s3_success) =>
         /\ Len(stores'[Len(stores')].s3_calls) = 2
         /\ \A c \in 1..2 :
              /\ stores'[Len(stores')].s3_calls[c] \in DOMAIN s3_objects'
              /\ s3_objects'[stores'[Len(stores')].s3_calls[c]]
                     = Val(stores'[Len(stores')].data)]_vars

\* C38, the latest key: never newer than the newest timestamped record
C38_LatestNotNewer == LatestNotNewer(s3_objects)

\* C38, the reported failure: the latest key is left alone, and the
\* timestamped key is written exactly when it is the second put_object that
\* failed
C38_FailureKeepsLatest ==
    [][(ObjectStoreStep /\ ~ stores'[Len(stores')].result.s3_success) =>
         /\ \A k \in DOMAIN s3_objects' :
              k.latest => (k \in DOMAIN s3_objects /\ s3_objects'[k] = s3_objects[k])
         /\ s3_objects' /= s3_objects <=> stores'[Len(stores')].s3_fail = 2]_vars

====
